---- MODULE Spec2Model ----
(***************************************************************************)
(* Model of the Kaiten MCP server's outbound request governor              *)
(* (src/src/kaiten-client.ts: p-queue admission, axios-retry, the error    *)
(* classifier and its interceptor chain), of the tool dispatcher's error   *)
(* result (src/src/index.ts) and of the read-through cache                 *)
(* (src/src/cache.ts with the cache-backed tool handlers of index.ts).     *)
(*                                                                         *)
(* Time is in milliseconds.  Timers (retry delays, the queue's interval)   *)
(* count down; Tick moves time to the next timer that is due.              *)
(***************************************************************************)
EXTENDS Integers, Sequences, FiniteSets, TLC

(***************************************************************************)
(* Bounds of the model                                                     *)
(***************************************************************************)
\* number of client calls that are submitted
NumReqs == 3
\* config.KAITEN_MAX_CONCURRENT_REQUESTS (1..20 in the configuration)
MaxConcurrent == 2

\* number of calls of a burst whose AbortSignal may fire
MaxCancelled == 1

Reqs == 1..NumReqs
CancelledReqs == {r \in Reqs : r <= MaxCancelled}

(***************************************************************************)
(* Program constants                                                       *)
(***************************************************************************)
\* axiosRetry(..., { retries: 3 })
retries == 3
\* const baseDelay = 1000
baseDelay == 1000
\* Math.random() * 500: a jitter in [0, 500)
jitterCeiling == 500
\* PQueue({ interval: 1000 })
interval == 1000
\* config.KAITEN_MAX_CONCURRENT_REQUESTS
VARIABLE KAITEN_MAX_CONCURRENT_REQUESTS
\* PQueue({ concurrency: config.KAITEN_MAX_CONCURRENT_REQUESTS })
concurrency == KAITEN_MAX_CONCURRENT_REQUESTS
\* PQueue({ intervalCap: config.KAITEN_MAX_CONCURRENT_REQUESTS })
intervalCap == KAITEN_MAX_CONCURRENT_REQUESTS

\* values Math.random() * 500 is sampled at
JitterValues == {0, 250, jitterCeiling - 1}

(***************************************************************************)
(* Errors.  One record shape carries both the transport's AxiosError and   *)
(* the client's KaitenError; a field a class does not have is "" (or 0,    *)
(* FALSE, <<>>), which is what reading it in JavaScript gives (undefined). *)
(***************************************************************************)
NoDetails == [code |-> "", data |-> "", retry_after |-> <<>>]

NoError ==
    [cls |-> "none", code |-> "", hasResponse |-> FALSE, status |-> 0,
     retryAfter |-> <<>>, data |-> "", message |-> "", type |-> "",
     hint |-> "", details |-> NoDetails]

\* an error of the transport: error.code, error.response (status, headers
\* ['retry-after'], data), error.message
AxiosError(code, hasResponse, status, retryAfter, message) ==
    [NoError EXCEPT !.cls = "AxiosError", !.code = code,
                    !.hasResponse = hasResponse, !.status = status,
                    !.retryAfter = retryAfter,
                    !.data = IF hasResponse THEN "body" ELSE "",
                    !.message = message]

KaitenError(type, message, status, details, hint) ==
    [NoError EXCEPT !.cls = "KaitenError", !.type = type, !.message = message,
                    !.status = status, !.details = details, !.hint = hint]

\* a || b on strings
OrElse(a, b) == IF a # "" THEN a ELSE b

\* an errorMap without the entry of 422
errorMapNo422 ==
    [s \in {401, 403, 404} |->
        CASE s = 401 -> <<"AUTH_ERROR", "Authentication failed", "Check your KAITEN_API_TOKEN in .env file">>
          [] s = 403 -> <<"AUTH_ERROR", "Insufficient permissions", "Your API token does not have permission to perform this action">>
          [] s = 404 -> <<"NOT_FOUND", "Resource not found", "Check that the card_id, board_id, space_id, or other resource ID is correct">>]

\* status codes the errorMap of handleAxiosError has an entry for
errorMap ==
    [s \in {401, 403, 404, 422} |->
        CASE s = 401 -> <<"AUTH_ERROR", "Authentication failed", "Check your KAITEN_API_TOKEN in .env file">>
          [] s = 403 -> <<"AUTH_ERROR", "Insufficient permissions", "Your API token does not have permission to perform this action">>
          [] s = 404 -> <<"NOT_FOUND", "Resource not found", "Check that the card_id, board_id, space_id, or other resource ID is correct">>
          [] s = 422 -> <<"VALIDATION_ERROR", "Validation error", "Check the request parameters for correctness">>]

\* a classifier that answers every failure as a server error
handleAxiosErrorAllServer(error) ==
    KaitenError("API_ERROR", "Kaiten server error", error.status,
                [NoDetails EXCEPT !.data = error.data],
                "The Kaiten API is experiencing issues. Try again later.")

handleAxiosError(error) ==
    IF error.code = "ECONNABORTED" \/ error.code = "ETIMEDOUT"
    THEN KaitenError("TIMEOUT", "Request timeout", 0,
                     [NoDetails EXCEPT !.code = error.code],
                     "Try reducing the limit parameter or specifying a more specific board_id/space_id")
    ELSE IF ~error.hasResponse
    THEN KaitenError("NETWORK_ERROR", OrElse(error.message, "Network error occurred"), 0,
                     [NoDetails EXCEPT !.code = error.code],
                     "Check your internet connection and API URL configuration")
    ELSE IF error.status \in DOMAIN errorMap
    THEN KaitenError(errorMap[error.status][1], errorMap[error.status][2], error.status,
                     [NoDetails EXCEPT !.data = error.data],
                     errorMap[error.status][3])
    ELSE IF error.status = 429
    THEN KaitenError("RATE_LIMITED", "Rate limit exceeded", error.status,
                     [NoDetails EXCEPT !.data = error.data,
                                       !.retry_after = IF error.retryAfter # <<>>
                                                       THEN error.retryAfter
                                                       ELSE <<"unknown">>],
                     "Reduce the frequency of requests or decrease the limit parameter")
    ELSE IF error.status >= 500 /\ error.status < 600
    THEN KaitenError("API_ERROR", "Kaiten server error", error.status,
                     [NoDetails EXCEPT !.data = error.data],
                     "The Kaiten API is experiencing issues. Try again later.")
    ELSE KaitenError("API_ERROR", OrElse(error.message, "API request failed"), error.status,
                     [NoDetails EXCEPT !.data = error.data], "")


(***************************************************************************)
(* axios-retry options (kaiten-client.ts 208-248)                          *)
(***************************************************************************)
DigitVal ==
    [c \in {"0", "1", "2", "3", "4", "5", "6", "7", "8", "9"} |->
        CASE c = "0" -> 0 [] c = "1" -> 1 [] c = "2" -> 2 [] c = "3" -> 3
          [] c = "4" -> 4 [] c = "5" -> 5 [] c = "6" -> 6 [] c = "7" -> 7
          [] c = "8" -> 8 [] c = "9" -> 9]

RECURSIVE ParseDigits(_, _, _)
\* the digits that lead s, read in base 10; <<FALSE, 0>> is NaN
ParseDigits(s, seen, acc) ==
    IF s # <<>> /\ Head(s) \in DOMAIN DigitVal
    THEN ParseDigits(Tail(s), TRUE, 10 * acc + DigitVal[Head(s)])
    ELSE <<seen, acc>>

\* parseInt(s, 10) of a header value given as its characters
parseInt(s) == ParseDigits(s, FALSE, 0)

exponentialDelayOnly(retryCount, error, jitter) ==
    baseDelay * (2 ^ (retryCount - 1)) + jitter

\* a delay that does not grow with the retry count
constantDelay(retryCount, error, jitter) == baseDelay + jitter

\* retryDelay: (retryCount, error) => ...; jitter is Math.random() * 500
retryDelay(retryCount, error, jitter) ==
    LET retryAfter == IF error.hasResponse THEN error.retryAfter ELSE <<>>
        seconds    == parseInt(retryAfter)
    IN  IF retryAfter # <<>> /\ seconds[1]
        THEN seconds[2] * 1000
        ELSE baseDelay * (2 ^ (retryCount - 1)) + jitter

retryConditionNo5xx(error) ==
    IF ~error.hasResponse THEN TRUE
    ELSE error.status = 429 \/ error.status = 408

\* retryCondition: (error) => ...
retryCondition(error) ==
    IF ~error.hasResponse THEN TRUE
    ELSE error.status = 429 \/ error.status = 408
         \/ (error.status >= 500 /\ error.status < 600)

shouldRetryOffByOne(retryCount, error) ==
    retryCount <= retries /\ retryCondition(error)

\* axios-retry retries while fewer than `retries` retries were made and
\* retryCondition accepts the error
shouldRetry(retryCount, error) ==
    retryCount < retries /\ retryCondition(error)

RECURSIVE rejectThroughChains(_, _)
\* The response interceptor registered after axiosRetry runs once in the
\* chain of every nested request: the chain of the last attempt gets the
\* transport's error, each enclosing chain (one per retry made) gets what the
\* chain inside it threw.
rejectThroughChains(error, levels) ==
    IF levels = 0 THEN handleAxiosError(error)
    ELSE handleAxiosError(rejectThroughChains(error, levels - 1))

(***************************************************************************)
(* Tool dispatcher: the catch block of the CallToolRequestSchema handler   *)
(***************************************************************************)
ToolOk == [isError |-> FALSE, type |-> "", message |-> "", status |-> 0, hint |-> ""]

CallToolCatch(error) ==
    IF error.hasResponse
    THEN [isError |-> TRUE, type |-> "API_ERROR",
          message |-> OrElse(error.message, "Kaiten API error"),
          status |-> error.status, hint |-> ""]
    ELSE [isError |-> TRUE, type |-> "UNKNOWN_ERROR",
          message |-> OrElse(error.message, "Error"),
          status |-> 0, hint |-> ""]

(***************************************************************************)
(* Transport outcomes                                                      *)
(***************************************************************************)
NoResponseCodes == {"ECONNABORTED", "ETIMEDOUT", "ECONNREFUSED"}
Statuses == {400, 401, 403, 404, 408, 409, 422, 429, 500, 503}
\* Retry-After header values: absent, a number of seconds, an HTTP date
RetryAfterHeaders == {<<>>, <<"3">>, <<"W", "e", "d">>}

TransportErrors ==
    {AxiosError(c, FALSE, 0, <<>>, "connect failed") : c \in NoResponseCodes}
    \cup {AxiosError("ERR_BAD_REQUEST", TRUE, s, <<>>, "Request failed") :
            s \in Statuses \ {429, 503}}
    \cup {AxiosError("ERR_BAD_RESPONSE", TRUE, s, h, "Request failed") :
            s \in {429, 503}, h \in RetryAfterHeaders}

\* what the transport raises for a request whose signal is aborted
CanceledError == AxiosError("ERR_CANCELED", FALSE, 0, <<>>, "canceled")

\* thrown by queuedRequest when the signal is aborted at submission
AbortedBeforeExecution ==
    KaitenError("UNKNOWN_ERROR", "Request aborted before execution", 0,
                [NoDetails EXCEPT !.code = "ABORTED"],
                "The operation was cancelled by the client")

\* thrown by the queued task when the signal is aborted at admission
AbortedInQueue ==
    KaitenError("UNKNOWN_ERROR", "Request aborted", 0,
                [NoDetails EXCEPT !.code = "ABORTED"],
                "The operation was cancelled")


(***************************************************************************)
(* Read-through cache (src/src/cache.ts)                                   *)
(***************************************************************************)
\* configured TTL of the cache when it is enabled, in seconds
CacheTtlSeconds == 1
\* LRUCache({ max }): entries one store holds (100 in cache.ts, scaled down)
CacheMax == 2
\* ids of spaces and of boards
MaxId == 2
\* number of tool calls
NumCalls == 2

Ids == 1..MaxId
Calls == 1..NumCalls

\* upstream resources as of time v: an object, and a list of one object
Object(v) == <<"id", v>>
ListOf(v) == <<Object(v)>>

\* cache keys: 'all', `space:${id}`, `board:${id}`
KeyAll == <<"all", 0>>
KeySpace(id) == <<"space", id>>
KeyBoard(id) == <<"board", id>>

Null == [isNull |-> TRUE, value |-> <<>>]
Value(v) == [isNull |-> FALSE, value |-> v]

\* --- lru-cache: a store is the sequence of its entries, most recently used
\* first; an entry is [key, data, timestamp], its TTL starts at timestamp ---
Keys(store) == {store[i].key : i \in 1..Len(store)}
IndexOf(store, k) == CHOOSE i \in 1..Len(store) : store[i].key = k
Without(store, k) == SelectSeq(store, LAMBDA e : e.key # k)

\* store.delete(k)
lruDelete(store, k) == Without(store, k)

lruGetNoRecency(store, k, now, ttl) ==
    IF k \notin Keys(store) THEN [entry |-> Null, store |-> store]
    ELSE LET e == store[IndexOf(store, k)]
         IN  IF ttl > 0 /\ now - e.timestamp > ttl
             THEN [entry |-> Null, store |-> lruDelete(store, k)]
             ELSE [entry |-> Value(e), store |-> store]

\* store.get(k) of a store built with updateAgeOnGet: true
lruGetUpdateAge(store, k, now, ttl) ==
    IF k \notin Keys(store) THEN [entry |-> Null, store |-> store]
    ELSE LET e == store[IndexOf(store, k)]
         IN  IF ttl > 0 /\ now - e.timestamp > ttl
             THEN [entry |-> Null, store |-> lruDelete(store, k)]
             ELSE [entry |-> Value(e),
                   store |-> <<[e EXCEPT !.timestamp = now]>> \o Without(store, k)]

\* store.get(k): undefined for a missing or stale entry (which is deleted),
\* otherwise the entry, which becomes the most recently used
lruGet(store, k, now, ttl) ==
    IF k \notin Keys(store) THEN [entry |-> Null, store |-> store]
    ELSE LET e == store[IndexOf(store, k)]
         IN  IF ttl > 0 /\ now - e.timestamp > ttl
             THEN [entry |-> Null, store |-> lruDelete(store, k)]
             ELSE [entry |-> Value(e), store |-> <<e>> \o Without(store, k)]

\* store.set(k, entry): a new key in a full store evicts the least recently used
lruSet(store, k, data, now) ==
    LET e == [key |-> k, data |-> data, timestamp |-> now]
    IN  IF k \in Keys(store) THEN <<e>> \o Without(store, k)
        ELSE IF Len(store) >= CacheMax
             THEN <<e>> \o SubSeq(store, 1, CacheMax - 1)
             ELSE <<e>> \o store

\* --- KaitenCache; c is [spaces, boards, users], cfg the TTL in seconds ---
ttlMs(cfg) == cfg * 1000
enabledAlways(cfg) == TRUE

enabled(cfg) == cfg > 0

isExpiredAtTtl(entry, now, cfg) == now - entry.timestamp >= ttlMs(cfg)

isExpired(entry, now, cfg) == now - entry.timestamp > ttlMs(cfg)

\* the body the get methods share: the store's entry, dropped when expired;
\* first: return entry.data[0] instead of entry.data
cacheGet(c, name, k, first, now, cfg) ==
    IF ~enabled(cfg) THEN [value |-> Null, cache |-> c]
    ELSE LET g == lruGet(c[name], k, now, ttlMs(cfg))
         IN  IF g.entry.isNull
             THEN [value |-> Null, cache |-> [c EXCEPT ![name] = g.store]]
             ELSE IF isExpired(g.entry.value, now, cfg)
             THEN [value |-> Null, cache |-> [c EXCEPT ![name] = lruDelete(g.store, k)]]
             ELSE [value |-> Value(IF first THEN g.entry.value.data[1]
                                   ELSE g.entry.value.data),
                   cache |-> [c EXCEPT ![name] = g.store]]

\* the body the set methods share; wrap: store [data] instead of data
cacheSet(c, name, k, data, wrap, now, cfg) ==
    IF ~enabled(cfg) THEN c
    ELSE [c EXCEPT ![name] = lruSet(@, k, IF wrap THEN <<data>> ELSE data, now)]

getSpaces(c, now, cfg) == cacheGet(c, "spaces", KeyAll, FALSE, now, cfg)
setSpaces(c, data, now, cfg) == cacheSet(c, "spaces", KeyAll, data, FALSE, now, cfg)
getSpace(c, spaceId, now, cfg) == cacheGet(c, "spaces", KeySpace(spaceId), TRUE, now, cfg)
setSpace(c, spaceId, data, now, cfg) == cacheSet(c, "spaces", KeySpace(spaceId), data, TRUE, now, cfg)

\* spaceId 0 stands for an absent spaceId
boardsKey(spaceId) == IF spaceId # 0 THEN KeySpace(spaceId) ELSE KeyAll

getBoards(c, spaceId, now, cfg) == cacheGet(c, "boards", boardsKey(spaceId), FALSE, now, cfg)
setBoards(c, data, spaceId, now, cfg) == cacheSet(c, "boards", boardsKey(spaceId), data, FALSE, now, cfg)
getBoard(c, boardId, now, cfg) == cacheGet(c, "boards", KeyBoard(boardId), TRUE, now, cfg)
setBoard(c, boardId, data, now, cfg) == cacheSet(c, "boards", KeyBoard(boardId), data, TRUE, now, cfg)
getUsers(c, now, cfg) == cacheGet(c, "users", KeyAll, FALSE, now, cfg)
setUsers(c, data, now, cfg) == cacheSet(c, "users", KeyAll, data, FALSE, now, cfg)

invalidateSpacesAndUsers(c) == [c EXCEPT !.spaces = <<>>, !.users = <<>>]

invalidateSpaces(c) == [c EXCEPT !.spaces = <<>>]
invalidateBoards(c) == [c EXCEPT !.boards = <<>>]
invalidateUsers(c) == [c EXCEPT !.users = <<>>]
invalidateAll(c) == [spaces |-> <<>>, boards |-> <<>>, users |-> <<>>]

\* getStats(): the size of every store
getStats(c) == [spaces |-> Len(c.spaces), boards |-> Len(c.boards), users |-> Len(c.users)]

\* --- the cache-backed tools of index.ts: <<tool, id>>; every space is
\* read, and the boards of the first space and the first board ---
CachedTools ==
    {<<"kaiten_list_spaces", 0>>, <<"kaiten_list_users", 0>>}
    \cup {<<"kaiten_get_space", id>> : id \in Ids}
    \cup {<<"kaiten_list_boards", 1>>, <<"kaiten_get_board", 1>>}

\* "Try cache first"
toolCacheGet(tool, c, now, cfg) ==
    CASE tool[1] = "kaiten_list_spaces" -> getSpaces(c, now, cfg)
      [] tool[1] = "kaiten_get_space"   -> getSpace(c, tool[2], now, cfg)
      [] tool[1] = "kaiten_list_boards" -> getBoards(c, tool[2], now, cfg)
      [] tool[1] = "kaiten_get_board"   -> getBoard(c, tool[2], now, cfg)
      [] tool[1] = "kaiten_list_users"  -> getUsers(c, now, cfg)

\* the cache.set* call after the fetch
toolCacheSet(tool, c, data, now, cfg) ==
    CASE tool[1] = "kaiten_list_spaces" -> setSpaces(c, data, now, cfg)
      [] tool[1] = "kaiten_get_space"   -> setSpace(c, tool[2], data, now, cfg)
      [] tool[1] = "kaiten_list_boards" -> setBoards(c, data, tool[2], now, cfg)
      [] tool[1] = "kaiten_get_board"   -> setBoard(c, tool[2], data, now, cfg)
      [] tool[1] = "kaiten_list_users"  -> setUsers(c, data, now, cfg)

\* what the upstream returns to the tool: a list or one object
IsListTool(tool) == tool[1] \in {"kaiten_list_spaces", "kaiten_list_boards", "kaiten_list_users"}
UpstreamData(tool, v) == IF IsListTool(tool) THEN ListOf(v) ELSE Object(v)

(***************************************************************************)
(* State                                                                   *)
(***************************************************************************)
VARIABLES
    \* --- KaitenClient: one entry per submitted client call ---
    st,             \* "new", "queued", "running" (an attempt is in flight),
                    \* "backoff" (axios-retry waits before the next attempt), "done"
    abortPhase,     \* where the call was when its AbortSignal fired: "none",
                    \* "submit", "queued", "running", "backoff"
    retryCount,     \* axios-retry's retryCount of the call
    delayLeft,      \* ms left of the retry delay
    waited,         \* ms passed since the last failed attempt (while in backoff)
    lastError,      \* the transport error of the last failed attempt
    transportCalls, \* transport calls made for the call
    fnInvoked,      \* the wrapped request function fn was invoked
    result,         \* what the caller of the client method got: NoError or the error
    toolResult,     \* what the tool dispatcher returned for it
    \* --- PQueue ---
    queue,          \* waiting jobs, first in first out
    pendingCount,   \* p-queue's count of jobs that run
    intervalCount,  \* jobs started in the current interval
    intervalLeft,   \* ms to the next interval tick; 0: the interval timer is off
    startedAgo,     \* ms since the queue started the call's job, up to interval;
                    \* NotStarted before
    \* --- mutating client methods ---
    idempotency_key, \* the idempotency key the caller passed with the call
    headers,        \* the Idempotency-Key of the call's request config
    sentKeys,       \* the Idempotency-Key values its transport attempts carried
    pauses,         \* per call, for each retry made: the ms it waited and the
                    \* error it followed
    metrics,        \* per call, the records the logging middleware handed to
                    \* logger.recordMetric for its requests, in order
    \* --- a function applied on its own ---
    args,           \* the arguments of the call
    returned,       \* what the call returned; NotReturned before
    \* --- KaitenCache and the tool calls that read through it ---
    KAITEN_CACHE_TTL_SECONDS, \* config.KAITEN_CACHE_TTL_SECONDS
    now,            \* Date.now(), in ms
    cache,          \* the stores: [spaces, boards, users]
    callPc,         \* a tool call: "idle", "fetching" (awaits the client),
                    \* "done", "failed" (the fetch threw)
    callTool,       \* its <<tool, id>>
    wentUpstream,   \* it missed the cache and called the client
    lookupAt,       \* the time of its cache lookup
    disturbed,      \* since its lookup its store was invalidated or evicted from
    invalidatedSince, \* since its lookup an invalidation of its store returned
    \* --- what was put and used, as the cache's contract sees it ---
    lastPut,        \* per store and key: the data and time of the last put
    useOrder,       \* per store: the keys held, most recently used first
    evicted,        \* per store: the keys a set pushed out and none has put again
    cleared         \* per store: since its last set it was invalidated while
                    \* it held entries

govVars == <<st, abortPhase, retryCount, delayLeft, waited, lastError,
             transportCalls, fnInvoked, result, toolResult,
             queue, pendingCount, intervalCount, intervalLeft,
             KAITEN_MAX_CONCURRENT_REQUESTS, startedAgo,
             idempotency_key, headers, sentKeys, pauses, metrics,
             args, returned>>

NotStarted == 0 - 1

aborted(r) == abortPhase[r] # "none"

(***************************************************************************)
(* PQueue admission.  The operators work on a record of the variables a    *)
(* job start changes, so that a chain of starts is one step.               *)
(***************************************************************************)
QState ==
    [queue |-> queue, pendingCount |-> pendingCount,
     intervalCount |-> intervalCount, intervalLeft |-> intervalLeft,
     st |-> st, fnInvoked |-> fnInvoked, transportCalls |-> transportCalls,
     result |-> result, toolResult |-> toolResult]

doesConcurrentAllowAnotherLax(s) == s.pendingCount <= concurrency

doesConcurrentAllowAnother(s) == s.pendingCount < concurrency

doesIntervalAllowAnotherLax(s) == s.intervalCount <= intervalCap

doesIntervalAllowAnother(s) == s.intervalCount < intervalCap

CanStart(s) ==
    /\ Len(s.queue) > 0
    /\ doesIntervalAllowAnother(s)
    /\ doesConcurrentAllowAnother(s)

taskBodyNoCheck(s, h) ==
    [s EXCEPT !.st[h] = "running", !.fnInvoked[h] = TRUE,
              !.transportCalls[h] = @ + 1]

\* the task queuedRequest adds to the queue (kaiten-client.ts 367-383), for
\* the call h: it throws when the signal is aborted and invokes fn otherwise;
\* a job that throws gives its slot back
taskBody(s, h) ==
    IF aborted(h)
    THEN [s EXCEPT !.st[h] = "done", !.result[h] = AbortedInQueue,
                   !.toolResult[h] = CallToolCatch(AbortedInQueue),
                   !.pendingCount = @ - 1]
    ELSE [s EXCEPT !.st[h] = "running", !.fnInvoked[h] = TRUE,
                   !.transportCalls[h] = @ + 1]

\* p-queue takes the first job and runs it
RunJob(s) ==
    LET h == Head(s.queue)
    IN  taskBody([s EXCEPT !.queue = Tail(@),
                           !.pendingCount = @ + 1,
                           !.intervalCount = @ + 1,
                           !.intervalLeft = IF @ = 0 THEN interval ELSE @], h)

\* a queue that starts no job when one is added or one ends
tryToStartNone(s) == s

RECURSIVE tryToStartAnother(_)
\* one start; a job that throws at once calls next(), which tries again
tryToStartAnother(s) ==
    IF CanStart(s)
    THEN LET h == Head(s.queue)
             t == RunJob(s)
         IN  IF t.st[h] = "done" THEN tryToStartAnother(t) ELSE t
    ELSE s

RECURSIVE processQueue(_)
\* while (tryToStartAnother()) {}
processQueue(s) == IF CanStart(s) THEN processQueue(RunJob(s)) ELSE s

\* next(): the job that ran gives its slot back
next(s) == tryToStartAnother([s EXCEPT !.pendingCount = @ - 1])

SetQ(s) ==
    /\ queue' = s.queue
    /\ pendingCount' = s.pendingCount
    /\ intervalCount' = s.intervalCount
    /\ intervalLeft' = s.intervalLeft
    /\ st' = s.st
    /\ fnInvoked' = s.fnInvoked
    /\ transportCalls' = s.transportCalls
    /\ result' = s.result
    /\ toolResult' = s.toolResult

\* the call r settles with error e (NoError: success) and leaves the queue's slot
Settle(r, e) ==
    next([QState EXCEPT !.st[r] = "done", !.result[r] = e,
                        !.toolResult[r] = IF e = NoError THEN ToolOk
                                          ELSE CallToolCatch(e)])


(***************************************************************************)
(* KaitenClient: the steps of one client call                              *)
(***************************************************************************)
\* --- idempotency keys: <<kind, n>>; a string the caller passes is
\* <<"caller", n>>, the empty string <<"", 0>> ---
Undefined == <<"undefined", 0>>
EmptyString == <<"", 0>>
CallerKeys == {Undefined, EmptyString, <<"caller", 1>>}

\* `mcp-${Date.now()}-${randomBytes(8).toString('hex')}`: the n-th key generated
generateIdempotencyKey(n) == <<"mcp", n>>

\* const key = idempotency_key || this.generateIdempotencyKey()
idempotencyKeyOf(supplied, n) ==
    IF supplied \notin {Undefined, EmptyString} THEN supplied ELSE generateIdempotencyKey(n)

\* a key made again for every retry
requestHeadersPerAttempt(key, attempt) == <<key[1], key[2] + 100 * (attempt - 1)>>

\* const headers = { 'Idempotency-Key': key }, passed in the request config:
\* what the attempt-th transport attempt of the request carries
requestHeaders(key, attempt) == key

\* the fn of the mutating methods runs for the calls whose job starts in the
\* step and fixes their key; every transport attempt made in the step
\* carries the key of its request config
Keyed ==
    LET invoked == {r \in Reqs : fnInvoked'[r] /\ ~fnInvoked[r]}
        generates(r) == idempotency_key[r] \in {Undefined, EmptyString}
        before(r) == Cardinality({q \in Reqs : fnInvoked[q] /\ generates(q)})
                     + Cardinality({q \in invoked : q < r /\ generates(q)})
    IN  /\ headers' = [r \in Reqs |->
                          IF r \in invoked
                          THEN idempotencyKeyOf(idempotency_key[r], before(r) + 1)
                          ELSE headers[r]]
        /\ sentKeys' = [r \in Reqs |->
                           IF transportCalls'[r] > transportCalls[r]
                           THEN sentKeys[r] \cup {requestHeaders(headers'[r], transportCalls'[r])}
                           ELSE sentKeys[r]]
        /\ UNCHANGED idempotency_key

GovStart ==
    /\ st = [r \in Reqs |-> "new"]
    /\ abortPhase = [r \in Reqs |-> "none"]
    /\ retryCount = [r \in Reqs |-> 0]
    /\ delayLeft = [r \in Reqs |-> 0]
    /\ waited = [r \in Reqs |-> 0]
    /\ lastError = [r \in Reqs |-> NoError]
    /\ transportCalls = [r \in Reqs |-> 0]
    /\ fnInvoked = [r \in Reqs |-> FALSE]
    /\ result = [r \in Reqs |-> NoError]
    /\ toolResult = [r \in Reqs |-> ToolOk]
    /\ queue = <<>>
    /\ pendingCount = 0
    /\ intervalCount = 0
    /\ intervalLeft = 0
    /\ startedAgo = [r \in Reqs |-> NotStarted]
    /\ headers = [r \in Reqs |-> Undefined]
    /\ sentKeys = [r \in Reqs |-> {}]
    /\ pauses = [r \in Reqs |-> <<>>]
    /\ metrics = [r \in Reqs |-> <<>>]

\* the queue is built with MaxConcurrent slots; no caller passes a key
NoArgs == <<>>
NotReturned == [done |-> FALSE, value |-> <<>>]
Returned(v) == [done |-> TRUE, value |-> v]

\* no function is applied on its own
NoPureCall == args = NoArgs /\ returned = NotReturned

\* the server at rest, as the specifications of single functions leave it
AtRest ==
    /\ GovStart
    /\ KAITEN_MAX_CONCURRENT_REQUESTS = MaxConcurrent
    /\ idempotency_key = [r \in Reqs |-> Undefined]

GovInit == AtRest /\ NoPureCall

\* queuedRequest(fn, signal), called by a client method for the call r;
\* isAborted: signal.aborted at the call
queuedRequest(r, isAborted) ==
    /\ st[r] = "new"
    /\ IF isAborted
       THEN /\ abortPhase' = [abortPhase EXCEPT ![r] = "submit"]
            /\ SetQ([QState EXCEPT !.st[r] = "done",
                                   !.result[r] = AbortedBeforeExecution,
                                   !.toolResult[r] = CallToolCatch(AbortedBeforeExecution)])
       ELSE /\ UNCHANGED abortPhase
            /\ SetQ(tryToStartAnother([QState EXCEPT !.queue = Append(@, r),
                                                     !.st[r] = "queued"]))
    /\ UNCHANGED <<retryCount, delayLeft, waited, lastError>>

RECURSIVE retriesOfCanceled(_)
\* a request whose signal is aborted is rejected by the transport at once,
\* and so is every retry of it: the retryCount it ends with
retriesOfCanceled(k) ==
    IF shouldRetry(k, CanceledError) THEN retriesOfCanceled(k + 1) ELSE k

\* the AbortSignal of the call r fires
Abort(r) ==
    /\ st[r] \in {"queued", "running", "backoff"}
    /\ ~aborted(r)
    /\ abortPhase' = [abortPhase EXCEPT ![r] = st[r]]
    /\ IF st[r] = "queued"
       THEN UNCHANGED <<st, retryCount, delayLeft, waited, lastError,
                        transportCalls, fnInvoked, result, toolResult,
                        queue, pendingCount, intervalCount, intervalLeft>>
       ELSE LET k == retriesOfCanceled(retryCount[r])
            IN  /\ retryCount' = [retryCount EXCEPT ![r] = k]
                /\ lastError' = [lastError EXCEPT ![r] = CanceledError]
                /\ delayLeft' = [delayLeft EXCEPT ![r] = 0]
                /\ UNCHANGED waited
                /\ SetQ(Settle(r, rejectThroughChains(CanceledError, k)))

\* the attempt in flight gets a 2xx response
Succeed(r) ==
    /\ st[r] = "running"
    /\ SetQ(Settle(r, NoError))
    /\ UNCHANGED <<abortPhase, retryCount, delayLeft, waited, lastError>>

\* a failed attempt that gives its slot back while it waits for its retry
FailReleasingSlot(r, e, jitter) ==
    /\ st[r] = "running"
    /\ lastError' = [lastError EXCEPT ![r] = e]
    /\ IF shouldRetry(retryCount[r], e)
       THEN /\ retryCount' = [retryCount EXCEPT ![r] = @ + 1]
            /\ delayLeft' = [delayLeft EXCEPT ![r] = retryDelay(retryCount[r] + 1, e, jitter)]
            /\ waited' = [waited EXCEPT ![r] = 0]
            /\ SetQ(next([QState EXCEPT !.st[r] = "backoff"]))
       ELSE /\ SetQ(Settle(r, rejectThroughChains(e, retryCount[r])))
            /\ UNCHANGED <<retryCount, delayLeft, waited>>
    /\ UNCHANGED abortPhase

\* the attempt in flight fails with the transport error e
Fail(r, e, jitter) ==
    /\ st[r] = "running"
    /\ lastError' = [lastError EXCEPT ![r] = e]
    /\ IF shouldRetry(retryCount[r], e)
       THEN /\ retryCount' = [retryCount EXCEPT ![r] = @ + 1]
            /\ delayLeft' = [delayLeft EXCEPT ![r] = retryDelay(retryCount[r] + 1, e, jitter)]
            /\ waited' = [waited EXCEPT ![r] = 0]
            /\ st' = [st EXCEPT ![r] = "backoff"]
            /\ UNCHANGED <<transportCalls, fnInvoked, result, toolResult,
                           queue, pendingCount, intervalCount, intervalLeft>>
       ELSE /\ SetQ(Settle(r, rejectThroughChains(e, retryCount[r])))
            /\ UNCHANGED <<retryCount, delayLeft, waited>>
    /\ UNCHANGED abortPhase

\* a retry issued without waiting for the delay to run out
RetryEarly(r) ==
    /\ st[r] = "backoff"
    /\ st' = [st EXCEPT ![r] = "running"]
    /\ transportCalls' = [transportCalls EXCEPT ![r] = @ + 1]
    /\ UNCHANGED <<abortPhase, retryCount, delayLeft, waited, lastError,
                   fnInvoked, result, toolResult,
                   queue, pendingCount, intervalCount, intervalLeft>>

\* the retry delay is over: axios-retry issues the request again
Retry(r) ==
    /\ st[r] = "backoff"
    /\ delayLeft[r] = 0
    /\ st' = [st EXCEPT ![r] = "running"]
    /\ transportCalls' = [transportCalls EXCEPT ![r] = @ + 1]
    /\ UNCHANGED <<abortPhase, retryCount, delayLeft, waited, lastError,
                   fnInvoked, result, toolResult,
                   queue, pendingCount, intervalCount, intervalLeft>>

Min(S) == CHOOSE x \in S : \A y \in S : x <= y

Timers ==
    {delayLeft[r] : r \in {q \in Reqs : st[q] = "backoff"}}
    \cup (IF intervalLeft > 0 THEN {intervalLeft} ELSE {})

\* an interval timer that resets the count and starts no waiting job
onIntervalNoStart(s) ==
    [s EXCEPT !.intervalLeft = IF s.intervalCount = 0 /\ s.pendingCount = 0
                               THEN 0 ELSE interval,
              !.intervalCount = 0]

\* onInterval(): the interval timer of the queue ticks
onInterval(s) ==
    processQueue([s EXCEPT !.intervalLeft =
                               IF s.intervalCount = 0 /\ s.pendingCount = 0
                               THEN 0 ELSE interval,
                           !.intervalCount = 0])

\* time passes up to the next timer
Tick ==
    /\ Timers # {}
    /\ 0 \notin Timers
    /\ LET d == Min(Timers)
       IN  /\ delayLeft' = [r \in Reqs |-> IF st[r] = "backoff" THEN delayLeft[r] - d
                                           ELSE delayLeft[r]]
           /\ waited' = [r \in Reqs |-> IF st[r] = "backoff" THEN waited[r] + d
                                        ELSE waited[r]]
           /\ IF intervalLeft = d
              THEN SetQ(onInterval(QState))
              ELSE SetQ([QState EXCEPT !.intervalLeft = IF @ > 0 THEN @ - d ELSE 0])
    /\ UNCHANGED <<abortPhase, retryCount, lastError>>

\* time passes, half an interval and short of every timer
Elapse ==
    LET d == interval \div 2
    IN  /\ \A t \in Timers : t > d
        /\ delayLeft' = [r \in Reqs |-> IF st[r] = "backoff" THEN delayLeft[r] - d
                                        ELSE delayLeft[r]]
        /\ waited' = [r \in Reqs |-> IF st[r] = "backoff" THEN waited[r] + d
                                     ELSE waited[r]]
        /\ intervalLeft' = IF intervalLeft > 0 THEN intervalLeft - d ELSE 0
        /\ UNCHANGED <<st, abortPhase, retryCount, lastError, transportCalls, fnInvoked,
                       result, toolResult, queue, pendingCount, intervalCount>>

\* d ms pass and then the step's jobs start: the age of every start
Aged(d) ==
    startedAgo' = [r \in Reqs |->
                     IF fnInvoked'[r] /\ ~fnInvoked[r] THEN 0
                     ELSE IF startedAgo[r] = NotStarted THEN NotStarted
                     ELSE Min({startedAgo[r] + d, interval})]

storeVars == <<KAITEN_CACHE_TTL_SECONDS, now, cache, lastPut, useOrder, evicted,
               cleared>>
callVars == <<callPc, callTool, wentUpstream, lookupAt, disturbed, invalidatedSince>>
cacheVars == <<storeVars, callVars>>

vars == <<govVars, cacheVars>>

(***************************************************************************)
(* KaitenCache operations and the cache-backed tool calls                  *)
(***************************************************************************)
StoreNames == {"spaces", "boards", "users"}
AllKeys == {KeyAll} \cup {KeySpace(i) : i \in Ids} \cup {KeyBoard(i) : i \in Ids}
NeverPut == [isSet |-> FALSE, data |-> <<>>, t |-> 0]
NoTool == <<"", 0>>

\* the kind (store) and key the contract gives a cache-backed read
StoreOf(tool) ==
    CASE tool[1] \in {"kaiten_list_spaces", "kaiten_get_space"} -> "spaces"
      [] tool[1] \in {"kaiten_list_boards", "kaiten_get_board"} -> "boards"
      [] OTHER -> "users"
KeyOf(tool) ==
    CASE tool[1] \in {"kaiten_get_space", "kaiten_list_boards"} /\ tool[2] # 0
            -> KeySpace(tool[2])
      [] tool[1] = "kaiten_get_board" -> KeyBoard(tool[2])
      [] OTHER -> KeyAll

InSeq(q, k) == \E i \in 1..Len(q) : q[i] = k
Drop(q, k) == SelectSeq(q, LAMBDA x : x # k)
CacheOn == KAITEN_CACHE_TTL_SECONDS > 0

\* the contract: an entry is present while it is held and its TTL has not elapsed
Present(name, k) ==
    /\ CacheOn
    /\ InSeq(useOrder[name], k)
    /\ now - lastPut[name][k].t <= KAITEN_CACHE_TTL_SECONDS * 1000

\* the contract's bookkeeping of a get: a present entry becomes the most
\* recently used, an expired one is dropped
UsedByGet(name, k) ==
    IF Present(name, k)
    THEN /\ UNCHANGED lastPut
         /\ useOrder' = [useOrder EXCEPT ![name] = <<k>> \o Drop(@, k)]
    ELSE IF CacheOn /\ InSeq(useOrder[name], k)
    THEN /\ lastPut' = [lastPut EXCEPT ![name][k] = NeverPut]
         /\ useOrder' = [useOrder EXCEPT ![name] = Drop(@, k)]
    ELSE UNCHANGED <<lastPut, useOrder>>

\* the keys a put of k leaves held: the CacheMax most recently used
HeldAfterPut(name, k) ==
    LET q == <<k>> \o Drop(useOrder[name], k)
    IN  IF Len(q) > CacheMax THEN SubSeq(q, 1, CacheMax) ELSE q

\* a put of k pushes another key out of its store
Evicts(name, k) ==
    CacheOn /\ \E i \in 1..Len(useOrder[name]) :
                  ~InSeq(HeldAfterPut(name, k), useOrder[name][i])

CacheInit ==
    /\ KAITEN_CACHE_TTL_SECONDS \in {0, CacheTtlSeconds}
    /\ now = 0
    /\ cache = [spaces |-> <<>>, boards |-> <<>>, users |-> <<>>]
    /\ callPc = [c \in Calls |-> "idle"]
    /\ callTool = [c \in Calls |-> NoTool]
    /\ wentUpstream = [c \in Calls |-> FALSE]
    /\ lookupAt = [c \in Calls |-> 0]
    /\ disturbed = [c \in Calls |-> FALSE]
    /\ invalidatedSince = [c \in Calls |-> FALSE]
    /\ lastPut = [n \in StoreNames |-> [k \in AllKeys |-> NeverPut]]
    /\ useOrder = [n \in StoreNames |-> <<>>]
    /\ evicted = [n \in StoreNames |-> {}]
    /\ cleared = [n \in StoreNames |-> FALSE]

\* cache.get*(...): what it returns and how it leaves the cache
Got(tool) == toolCacheGet(tool, cache, now, KAITEN_CACHE_TTL_SECONDS)
GetOp(tool) ==
    /\ cache' = Got(tool).cache
    /\ UsedByGet(StoreOf(tool), KeyOf(tool))
    /\ UNCHANGED <<KAITEN_CACHE_TTL_SECONDS, now, evicted, cleared>>

\* cache.set*(data, ...)
SetOp(tool, data) ==
    LET name == StoreOf(tool)
        k    == KeyOf(tool)
    IN  /\ cache' = toolCacheSet(tool, cache, data, now, KAITEN_CACHE_TTL_SECONDS)
        /\ IF CacheOn
           THEN /\ lastPut' = [lastPut EXCEPT ![name] =
                                  [j \in AllKeys |->
                                     IF j = k THEN [isSet |-> TRUE, data |-> data, t |-> now]
                                     ELSE IF InSeq(HeldAfterPut(name, k), j) THEN @[j]
                                     ELSE NeverPut]]
                /\ useOrder' = [useOrder EXCEPT ![name] = HeldAfterPut(name, k)]
           ELSE UNCHANGED <<lastPut, useOrder>>
        /\ evicted' = [evicted EXCEPT
                         ![name] = (@ \cup (Keys(cache[name]) \ Keys(cache'[name]))) \ {k}]
        /\ cleared' = [cleared EXCEPT ![name] = @ /\ cache'[name] = <<>>]
        /\ UNCHANGED <<KAITEN_CACHE_TTL_SECONDS, now>>

\* cache.invalidateSpaces() / Boards() / Users() / All()
InvalidateOp(which) ==
    LET names == IF which = "all" THEN StoreNames ELSE {which}
    IN  /\ cache' = CASE which = "spaces" -> invalidateSpaces(cache)
                       [] which = "boards" -> invalidateBoards(cache)
                       [] which = "users"  -> invalidateUsers(cache)
                       [] which = "all"    -> invalidateAll(cache)
        /\ lastPut' = [n \in StoreNames |->
                          IF n \in names THEN [k \in AllKeys |-> NeverPut] ELSE lastPut[n]]
        /\ useOrder' = [n \in StoreNames |-> IF n \in names THEN <<>> ELSE useOrder[n]]
        /\ evicted' = [n \in StoreNames |-> IF n \in names THEN {} ELSE evicted[n]]
        /\ cleared' = [n \in StoreNames |->
                          IF n \in names THEN cleared[n] \/ cache[n] # <<>> ELSE cleared[n]]
        /\ UNCHANGED <<KAITEN_CACHE_TTL_SECONDS, now>>

\* time passes: the clock is read at the start, when the TTL has passed since
\* then, and a millisecond after that
Advance ==
    /\ now <= ttlMs(KAITEN_CACHE_TTL_SECONDS)
    /\ now' = IF now < ttlMs(KAITEN_CACHE_TTL_SECONDS)
              THEN ttlMs(KAITEN_CACHE_TTL_SECONDS) ELSE now + 1
    /\ UNCHANGED <<KAITEN_CACHE_TTL_SECONDS, cache, lastPut, useOrder, evicted, cleared,
                   callVars>>

\* --- the cache object, driven method by method ---
CacheGet(tool) ==
    /\ GetOp(tool)
    /\ UNCHANGED callVars

CacheSet(tool) ==
    /\ SetOp(tool, UpstreamData(tool, now))
    /\ UNCHANGED callVars

CacheInvalidate(which) ==
    /\ InvalidateOp(which)
    /\ UNCHANGED callVars

CacheNext ==
    /\ \/ \E tool \in CachedTools : CacheGet(tool)
       \/ \E tool \in CachedTools : CacheSet(tool)
       \/ \E which \in StoreNames \cup {"all"} : CacheInvalidate(which)
       \/ Advance
    /\ UNCHANGED govVars

\* --- the tool handlers of index.ts over the cache ---
\* a cache-backed tool is called: "Try cache first"; on a miss the call goes
\* to the client and awaits it.  Calls arrive in the order of their numbers.
ToolLookup(c, tool) ==
    /\ callPc[c] = "idle"
    /\ \A d \in Calls : d < c => callPc[d] # "idle"
    /\ GetOp(tool)
    /\ callPc' = [callPc EXCEPT ![c] = IF Got(tool).value.isNull THEN "fetching" ELSE "done"]
    /\ wentUpstream' = [wentUpstream EXCEPT ![c] = Got(tool).value.isNull]
    /\ callTool' = [callTool EXCEPT ![c] = tool]
    /\ lookupAt' = [lookupAt EXCEPT ![c] = now]
    /\ UNCHANGED <<disturbed, invalidatedSince>>

\* the client returns the resource: the tool stores it
ToolFetchDone(c) ==
    /\ callPc[c] = "fetching"
    /\ SetOp(callTool[c], UpstreamData(callTool[c], now))
    /\ disturbed' = [d \in Calls |->
                        \/ disturbed[d]
                        \/ /\ Evicts(StoreOf(callTool[c]), KeyOf(callTool[c]))
                           /\ d # c /\ callPc[d] # "idle"
                           /\ StoreOf(callTool[d]) = StoreOf(callTool[c])]
    /\ callPc' = [callPc EXCEPT ![c] = "done"]
    /\ UNCHANGED <<callTool, wentUpstream, lookupAt, invalidatedSince>>

\* the client throws: the tool call fails and stores nothing
ToolFetchFail(c) ==
    /\ callPc[c] = "fetching"
    /\ callPc' = [callPc EXCEPT ![c] = "failed"]
    /\ UNCHANGED <<storeVars, callTool, wentUpstream, lookupAt, disturbed, invalidatedSince>>

\* kaiten_cache_invalidate_spaces / _boards / _users / _all
ToolInvalidate(which) ==
    /\ InvalidateOp(which)
    /\ disturbed' = [d \in Calls |->
                        \/ disturbed[d]
                        \/ /\ callPc[d] # "idle"
                           /\ which \in {"all", StoreOf(callTool[d])}]
    /\ invalidatedSince' = [d \in Calls |->
                               \/ invalidatedSince[d]
                               \/ /\ callPc[d] # "idle"
                                  /\ which \in {"all", StoreOf(callTool[d])}]
    /\ UNCHANGED <<callPc, callTool, wentUpstream, lookupAt>>

ToolsNext ==
    /\ \/ \E c \in Calls, tool \in CachedTools : ToolLookup(c, tool)
       \/ \E c \in Calls : ToolFetchDone(c)
       \/ \E c \in Calls : ToolFetchFail(c)
       \/ \E which \in StoreNames \cup {"all"} : ToolInvalidate(which)
       \/ Advance
    /\ UNCHANGED govVars

Init == GovInit /\ CacheInit

\* the client specifications run with the cache configured on
ClientInit == Init /\ CacheOn

SpecCache == Init /\ [][CacheNext]_vars

SpecTools == Init /\ [][ToolsNext]_vars

\* the server configured with KAITEN_CACHE_TTL_SECONDS=0: cache methods and
\* tool calls in any order
DisabledNext == CacheNext \/ ToolsNext

\* KAITEN_CACHE_TTL_SECONDS=0
DisabledInit == Init /\ ~CacheOn

SpecDisabled == DisabledInit /\ [][DisabledNext]_vars

ClientNext(R, C, E, J) ==
    \/ \E r \in R : queuedRequest(r, FALSE)
    \/ \E r \in C : queuedRequest(r, TRUE)
    \/ \E r \in C : Abort(r)
    \/ \E r \in R : Succeed(r)
    \/ \E r \in R, e \in E, jitter \in J : Fail(r, e, jitter)
    \/ \E r \in R : Retry(r)
    \/ Tick

\* the transport error of the burst specification: a retryable one, which is
\* final once the retries are used up
BurstErrors == {AxiosError("ERR_BAD_RESPONSE", TRUE, 503, <<>>, "Request failed")}

\* a burst of NumReqs calls against a queue of MaxConcurrent slots
Next ==
    /\ ClientNext(Reqs, CancelledReqs, BurstErrors, {0})
    /\ UNCHANGED <<cacheVars, args, returned, KAITEN_MAX_CONCURRENT_REQUESTS, startedAgo,
                   idempotency_key, headers, sentKeys, pauses, metrics>>

Spec == ClientInit /\ [][Next]_vars

\* the calls of the retry specification: every transport error, every jitter
RetryReqs == {r \in Reqs : r <= 1}

RetryNext ==
    /\ ClientNext(RetryReqs, RetryReqs, TransportErrors, JitterValues)
    /\ UNCHANGED <<cacheVars, args, returned, KAITEN_MAX_CONCURRENT_REQUESTS, startedAgo,
                   idempotency_key, headers, sentKeys, pauses, metrics>>

SpecRetry == ClientInit /\ [][RetryNext]_vars

\* calls that all succeed, against a queue of 1..MaxConcurrent slots, with
\* the time of every start kept
RateInit ==
    /\ GovStart
    /\ KAITEN_MAX_CONCURRENT_REQUESTS \in 1..MaxConcurrent
    /\ idempotency_key = [r \in Reqs |-> Undefined]
    /\ NoPureCall
    /\ CacheInit
    /\ CacheOn

RateNext ==
    /\ \/ \E r \in Reqs : queuedRequest(r, FALSE) /\ Aged(0)
       \/ \E r \in Reqs : Succeed(r) /\ Aged(0)
       \/ Tick /\ Aged(Min(Timers))
       \/ Elapse /\ Aged(interval \div 2)
    /\ UNCHANGED <<cacheVars, args, returned, KAITEN_MAX_CONCURRENT_REQUESTS,
                   idempotency_key, headers, sentKeys, pauses, metrics>>

SpecRate == RateInit /\ [][RateNext]_vars

\* calls of the mutating methods (createCard, updateCard, createComment,
\* updateComment), each with or without a key of the caller
MutateReqs == {r \in Reqs : r <= 2}

MutateInit ==
    /\ GovStart
    /\ KAITEN_MAX_CONCURRENT_REQUESTS = MaxConcurrent
    /\ idempotency_key \in [Reqs -> CallerKeys]
    /\ \A r \in Reqs \ MutateReqs : idempotency_key[r] = Undefined
    /\ NoPureCall
    /\ CacheInit
    /\ CacheOn

MutateNext ==
    /\ ClientNext(MutateReqs, MutateReqs \cap CancelledReqs, BurstErrors, {0})
    /\ Keyed
    /\ UNCHANGED <<cacheVars, args, returned, KAITEN_MAX_CONCURRENT_REQUESTS, startedAgo, pauses, metrics>>

SpecMutate == MutateInit /\ [][MutateNext]_vars

\* z.object({...}).parse(args) of valid values: the keys the schema does
\* not declare are stripped
parse(keys, arguments) == [k \in DOMAIN arguments \cap keys |-> arguments[k]]

\* --- the tools that change a card or a comment (index.ts) ---
MutatingTools ==
    {"kaiten_create_card", "kaiten_update_card",
     "kaiten_create_comment", "kaiten_update_comment"}

\* the keys of CreateCardSchema, UpdateCardSchema, CreateCommentSchema and
\* UpdateCommentSchema
MutationSchemaKeys(tool) ==
    CASE tool = "kaiten_create_card" ->
            {"title", "board_id", "column_id", "lane_id", "description", "type_id",
             "size", "asap", "owner_id", "due_date", "idempotency_key"}
      [] tool = "kaiten_update_card" ->
            {"card_id", "title", "description", "state", "column_id", "lane_id",
             "type_id", "size", "asap", "owner_id", "due_date", "idempotency_key"}
      [] tool = "kaiten_create_comment" -> {"card_id", "text", "idempotency_key"}
      [] tool = "kaiten_update_comment" -> {"card_id", "comment_id", "text", "idempotency_key"}

\* the fields of validatedArgs the card tools copy into params one by one
CardParamKeys ==
    {"title", "board_id", "column_id", "lane_id", "description", "state",
     "type_id", "size", "asap", "owner_id", "due_date"}

\* the idempotency key the handler of the tool hands the client method:
\* createCard(params) and updateCard(card_id, params) read it from params,
\* createComment and updateComment are called with undefined in its place
passedIdempotencyKey(tool, validatedArgs) ==
    IF tool \in {"kaiten_create_card", "kaiten_update_card"}
    THEN LET params == [k \in DOMAIN validatedArgs \cap CardParamKeys |-> validatedArgs[k]]
         IN  IF "idempotency_key" \in DOMAIN params
             THEN params.idempotency_key ELSE Undefined
    ELSE Undefined

\* arguments of a call of a mutating tool, without and with a key of the caller
ToolArguments ==
    {[card_id |-> 1, title |-> "Fix login", text |-> "done"],
     [card_id |-> 1, title |-> "Fix login", text |-> "done",
      idempotency_key |-> <<"caller", 1>>]}

\* calls of the mutating tools; the client method of each is called with
\* the key its handler passes
ToolMutateInit ==
    /\ GovStart
    /\ KAITEN_MAX_CONCURRENT_REQUESTS = MaxConcurrent
    /\ args \in [MutateReqs -> [tool : MutatingTools, arguments : ToolArguments]]
    /\ returned = NotReturned
    /\ idempotency_key =
          [r \in Reqs |->
              IF r \in MutateReqs
              THEN passedIdempotencyKey(
                       args[r].tool,
                       parse(MutationSchemaKeys(args[r].tool), args[r].arguments))
              ELSE Undefined]
    /\ CacheInit
    /\ CacheOn

SpecMutateTool == ToolMutateInit /\ [][MutateNext]_vars

\* one call against an upstream that answers 503, with or without a
\* Retry-After header, or succeeds; the pause before every retry is kept
ServerErrors == {e \in TransportErrors : e.status = 503}

Paused ==
    pauses' = [r \in Reqs |->
                 IF st[r] = "backoff" /\ st'[r] = "running"
                 THEN Append(pauses[r], [ms |-> waited[r], after |-> lastError[r]])
                 ELSE pauses[r]]

BackoffNext ==
    /\ ClientNext(RetryReqs, RetryReqs, ServerErrors, JitterValues)
    /\ Paused
    /\ UNCHANGED <<cacheVars, args, returned, KAITEN_MAX_CONCURRENT_REQUESTS, startedAgo>>
    /\ UNCHANGED <<idempotency_key, headers, sentKeys, metrics>>

SpecBackoff == ClientInit /\ [][BackoffNext]_vars

\* --- the logging middleware (setupLoggingMiddleware) ---
\* the record the response interceptor of the middleware hands to
\* logger.recordMetric: success: true from its first handler, success: false
\* from its second
MetricRecord(success) == [tool |-> "http_request", success |-> success]

\* The response interceptors run in the order of their registration:
\* axios-retry's, the error handler's, the middleware's.  axios-retry answers
\* a failure it retries with the promise of the request it issues again, so
\* the interceptors after it in the chain of a request see what the request
\* nested in it ended with, or the request's own outcome when no retry
\* follows.  chains: the requests issued for the call, one in the other.
recordMetrics(chains, success) == [i \in 1..chains |-> MetricRecord(success)]

\* the calls that leave the transport in the step have had every chain of
\* theirs run to its end
Recorded ==
    metrics' = [r \in Reqs |->
                  IF st[r] \in {"running", "backoff"} /\ st'[r] = "done"
                  THEN metrics[r] \o recordMetrics(retryCount'[r] + 1, result'[r] = NoError)
                  ELSE metrics[r]]

\* one call against an upstream that answers 503 or succeeds, with the
\* records of the metrics kept
MetricsNext ==
    /\ ClientNext(RetryReqs, RetryReqs, ServerErrors, JitterValues)
    /\ Recorded
    /\ UNCHANGED <<cacheVars, args, returned, KAITEN_MAX_CONCURRENT_REQUESTS, startedAgo>>
    /\ UNCHANGED <<idempotency_key, headers, sentKeys, pauses>>

SpecMetrics == ClientInit /\ [][MetricsNext]_vars

(***************************************************************************)
(* Functions applied on their own                                          *)
(***************************************************************************)
\* everything but args and returned
restVars == <<st, abortPhase, retryCount, delayLeft, waited, lastError,
              transportCalls, fnInvoked, result, toolResult,
              queue, pendingCount, intervalCount, intervalLeft,
              KAITEN_MAX_CONCURRENT_REQUESTS, startedAgo,
              idempotency_key, headers, sentKeys, pauses, metrics, cacheVars>>

PureInit(inputs) ==
    /\ AtRest
    /\ CacheInit
    /\ CacheOn
    /\ args \in inputs
    /\ returned = NotReturned

\* the errors axios rejects with: without a response (timeout, connection,
\* network) or with the response of a status outside 2xx
AxiosErrorCodes == NoResponseCodes \cup {"ERR_NETWORK"}
ResponseStatuses == Statuses \cup {502, 504, 599}
AxiosErrors ==
    {AxiosError(c, FALSE, 0, <<>>, m) : c \in AxiosErrorCodes, m \in {"", "connect failed"}}
    \cup {AxiosError(IF s >= 500 THEN "ERR_BAD_RESPONSE" ELSE "ERR_BAD_REQUEST",
                     TRUE, s, h, m) :
            s \in ResponseStatuses, h \in RetryAfterHeaders, m \in {"", "Request failed"}}

\* this.handleAxiosError(error)
Classify ==
    /\ ~returned.done
    /\ returned' = Returned(handleAxiosError(args))
    /\ UNCHANGED <<args, restVars>>

SpecClassify == PureInit(AxiosErrors) /\ [][Classify]_vars

(***************************************************************************)
(* utils.ts: truncateResponse                                              *)
(***************************************************************************)
\* longest text and largest ceiling tried
MaxTextLength == 4
MaxCeiling == 4

\* a text is the sequence of its characters
Chars == {"a", "b"}
Texts == UNION {[1..n -> Chars] : n \in 0..MaxTextLength}

\* text.slice(0, end) for 0 <= end
slice(text, end) == SubSeq(text, 1, IF end < Len(text) THEN end ELSE Len(text))

\* Math.round(x / 4) for 0 <= x
roundQuarter(x) == (x + 2) \div 4

\* the notice: rule, heading, the three counts and the estimate of tokens,
\* the four hints, rule; a number stands for its digits
notice(originalLength, truncatedChars, maxLength) ==
    <<"\n\n", "rule", "RESPONSE TRUNCATED",
      "Original length: ", originalLength,
      "Truncated: ", truncatedChars,
      "Showing: ", maxLength, roundQuarter(maxLength),
      "To reduce response size:", "filters", "limit", "verbosity", "time ranges", "rule">>

truncateResponseKeepsAll(text, maxLength) ==
    IF Len(text) <= maxLength THEN text
    ELSE text \o notice(Len(text), Len(text) - maxLength, maxLength)

\* truncateResponse(text, maxLength)
truncateResponse(text, maxLength) ==
    IF Len(text) <= maxLength THEN text
    ELSE LET truncated      == slice(text, maxLength)
             originalLength == Len(text)
             truncatedChars == originalLength - maxLength
         IN  truncated \o notice(originalLength, truncatedChars, maxLength)

Truncate ==
    /\ ~returned.done
    /\ returned' = Returned(truncateResponse(args.text, args.maxLength))
    /\ UNCHANGED <<args, restVars>>

SpecTruncate ==
    PureInit([text : Texts, maxLength : 0..MaxCeiling]) /\ [][Truncate]_vars

(***************************************************************************)
(* utils.ts, index.ts: the verbosity of the list tools                     *)
(***************************************************************************)
\* most items an upstream list holds
MaxItems == 2

MAX_RESPONSE_LENGTH == 100000

\* an object is the function from its keys to their values; a key the
\* object lacks reads as undefined
get(o, f) == IF f \in DOMAIN o THEN o[f] ELSE "undefined"

\* x || d for a string x
orElse(x, d) == IF x \in {"undefined", "null", ""} THEN d ELSE x

\* KaitenCard, KaitenUser, KaitenBoard: the fields every item has and the
\* ones it may lack; description stands for the fields no tier but
\* detailed shows
FullCard ==
    [id |-> "1", title |-> "Fix login", updated |-> "2025-10-11",
     board |-> [title |-> "Dev", space_id |-> "3"], description |-> "text",
     board_id |-> "7", owner |-> [full_name |-> "Ann"], asap |-> TRUE]
FullUser ==
    [id |-> "1", full_name |-> "Ann", role |-> "admin",
     email |-> "ann@example.org", username |-> "ann", activated |-> "true"]
FullBoard ==
    [id |-> "7", title |-> "Dev", description |-> "text",
     space_id |-> "3", archived |-> "false", created |-> "2025-10-01"]

Items(full, required) ==
    {[f \in required \cup S |-> full[f]] : S \in SUBSET (DOMAIN full \ required)}

Cards == Items(FullCard, {"id", "title", "updated", "board", "description"})
Users == Items(FullUser, {"id", "full_name", "role"})
Boards == Items(FullBoard, {"id", "title", "description"})

\* card.owner?.full_name || null
ownerFullName(card) ==
    IF "owner" \in DOMAIN card
    THEN orElse(get(card.owner, "full_name"), "null")
    ELSE "null"

\* card.board?.title || null
boardTitle(card) ==
    IF "board" \in DOMAIN card
    THEN orElse(get(card.board, "title"), "null")
    ELSE "null"

\* card.space_id || card.board?.space_id || DEFAULT_SPACE_ID || ''
spaceIdOf(card) ==
    orElse(get(card, "space_id"),
           orElse(IF "board" \in DOMAIN card THEN get(card.board, "space_id")
                  ELSE "undefined",
                  "default"))

applyCardVerbosityMinimal(cards) ==
    [i \in DOMAIN cards |->
        [id         |-> cards[i].id,
         title      |-> cards[i].title,
         board_id   |-> get(cards[i], "board_id"),
         owner_name |-> ownerFullName(cards[i])]]

simplifyCardCompact(card) ==
    [id          |-> card.id,
     title       |-> card.title,
     url         |-> <<"/space/", spaceIdOf(card), "/card/", card.id>>,
     board_title |-> boardTitle(card),
     owner_name  |-> ownerFullName(card),
     updated     |-> get(card, "updated"),
     asap        |-> ("asap" \in DOMAIN card /\ card.asap),
     blocked     |-> ("blocked" \in DOMAIN card /\ card.blocked)]

\* simplifyFn is the function of the cards it is handed
applyCardVerbosity(cards, verbosity, simplifyFn) ==
    CASE verbosity = "minimal"  -> applyCardVerbosityMinimal(cards)
      [] verbosity = "detailed" -> cards
      [] OTHER                  -> [i \in DOMAIN cards |-> simplifyFn[cards[i]]]

applyUserVerbosity(users, verbosity) ==
    CASE verbosity = "minimal" ->
            [i \in DOMAIN users |->
                [id |-> users[i].id, full_name |-> users[i].full_name]]
      [] verbosity = "detailed" -> users
      [] OTHER ->
            [i \in DOMAIN users |->
                [id        |-> users[i].id,
                 full_name |-> users[i].full_name,
                 email     |-> get(users[i], "email"),
                 username  |-> get(users[i], "username"),
                 activated |-> get(users[i], "activated")]]

applyBoardVerbosity(boards, verbosity) ==
    CASE verbosity = "minimal" ->
            [i \in DOMAIN boards |->
                [id |-> boards[i].id, title |-> boards[i].title]]
      [] verbosity = "detailed" -> boards
      [] OTHER ->
            [i \in DOMAIN boards |->
                [id       |-> boards[i].id,
                 title    |-> boards[i].title,
                 space_id |-> get(boards[i], "space_id"),
                 archived |-> get(boards[i], "archived")]]

\* the five list tools, the resource each lists and the keys of its schema
ListTools ==
    {"kaiten_search_cards", "kaiten_get_space_cards", "kaiten_get_board_cards",
     "kaiten_list_users", "kaiten_list_boards"}

ResourceOf(tool) ==
    CASE tool = "kaiten_list_users"  -> "users"
      [] tool = "kaiten_list_boards" -> "boards"
      [] OTHER                       -> "cards"

SchemaKeys(tool) ==
    CASE tool = "kaiten_search_cards" ->
            {"query", "space_id", "board_id", "column_id", "lane_id", "title",
             "state", "owner_id", "type_id", "condition",
             "created_before", "created_after", "updated_before",
             "updated_after", "due_date_before", "due_date_after",
             "last_moved_to_done_at_before", "last_moved_to_done_at_after",
             "asap", "archived", "overdue", "done_on_time", "with_due_date",
             "owner_ids", "member_ids", "column_ids", "type_ids", "tag_ids",
             "exclude_board_ids", "exclude_owner_ids", "exclude_card_ids",
             "sort_by", "sort_direction", "limit", "skip"}
      [] tool = "kaiten_get_space_cards" -> {"space_id", "limit", "skip", "condition"}
      [] tool = "kaiten_get_board_cards" -> {"board_id", "limit", "skip", "condition"}
      [] tool = "kaiten_list_boards"     -> {"space_id"}
      [] tool = "kaiten_list_users"      -> {"query", "limit", "offset"}

\* A text is the sequence of its parts, one for each line of the frame and
\* one for each entry, an entry being the fields it shows.
line(fields) == [kind |-> "line", fields |-> fields]
entry(fields) == [kind |-> "entry", fields |-> fields]

\* the lines of one card in the summary
cardEntry(card, verbosity) ==
    IF verbosity = "minimal"
    THEN [id |-> card.id, title |-> card.title]
    ELSE [f \in {"title", "board_title", "owner_name", "url", "updated"}
                \cup (IF "asap" \in DOMAIN card /\ card.asap = TRUE
                      THEN {"asap"} ELSE {})
                \cup (IF "blocked" \in DOMAIN card /\ card.blocked = TRUE
                      THEN {"blocked"} ELSE {}) |->
            CASE f = "title"       -> card.title
              [] f = "board_title" -> orElse(get(card, "board_title"), "N/A")
              [] f = "owner_name"  -> orElse(get(card, "owner_name"), "Unassigned")
              [] f = "url"         -> get(card, "url")
              [] f = "updated"     -> orElse(get(card, "updated"), "N/A")
              [] OTHER             -> TRUE]

cardSummary(cards, processedCards, verbosity) ==
    <<line([found |-> Len(cards), verbosity |-> verbosity])>>
    \o [i \in DOMAIN processedCards |-> entry(cardEntry(processedCards[i], verbosity))]
    \o <<line([hint |-> "kaiten_get_card"])>>

\* JSON.stringify(value, null, 2) of a list of objects: a key whose value
\* is undefined is left out
stringify(objects) ==
    <<line([bracket |-> "["])>>
    \o [i \in DOMAIN objects |->
          entry([k \in {f \in DOMAIN objects[i] : objects[i][f] # "undefined"} |->
                    objects[i][k]])]
    \o <<line([bracket |-> "]"])>>

\* the handler of a list tool, from the arguments of the call and the list
\* it obtained to the text it answers with
listTool(tool, arguments, items) ==
    LET validatedArgs == parse(SchemaKeys(tool), arguments)
        verbosity == orElse(get(validatedArgs, "verbosity"), "normal")
    IN  CASE ResourceOf(tool) = "cards" ->
                truncateResponse(
                    cardSummary(items,
                                applyCardVerbosity(items, verbosity,
                                                   [card \in {items[i] : i \in DOMAIN items} |-> simplifyCardCompact(card)]),
                                verbosity),
                    MAX_RESPONSE_LENGTH)
          [] ResourceOf(tool) = "users" ->
                truncateResponse(stringify(applyUserVerbosity(items, verbosity)),
                                 MAX_RESPONSE_LENGTH)
          [] ResourceOf(tool) = "boards" ->
                truncateResponse(stringify(applyBoardVerbosity(items, verbosity)),
                                 MAX_RESPONSE_LENGTH)

\* the projection of a resource as its tools call it
project(resource, items, verbosity) ==
    CASE resource = "cards"  ->
            applyCardVerbosity(items, verbosity,
                               [card \in {items[i] : i \in DOMAIN items} |-> simplifyCardCompact(card)])
      [] resource = "users"  -> applyUserVerbosity(items, verbosity)
      [] resource = "boards" -> applyBoardVerbosity(items, verbosity)

Tiers == {"minimal", "normal", "detailed"}

ListArguments ==
    {[k \in {} |-> "normal"], [limit |-> "10"]}
    \cup {[verbosity |-> v] : v \in Tiers}
    \cup {[limit |-> "10", verbosity |-> v] : v \in Tiers}

ItemsOf(resource) ==
    LET items == CASE resource = "cards"  -> Cards
                   [] resource = "users"  -> Users
                   [] resource = "boards" -> Boards
    IN  UNION {[1..n -> items] : n \in 0..MaxItems}

ListCalls ==
    UNION {[tool : {t}, arguments : ListArguments, items : ItemsOf(ResourceOf(t))] :
             t \in ListTools}

\* applyCardVerbosity / applyUserVerbosity / applyBoardVerbosity on the list
Project ==
    /\ ~returned.done
    /\ returned' = Returned([via |-> "project",
                             out |-> project(ResourceOf(args.tool), args.items,
                                             orElse(get(args.arguments, "verbosity"),
                                                    "normal"))])
    /\ UNCHANGED <<args, restVars>>

\* the CallTool handler on a list tool
CallListTool ==
    /\ ~returned.done
    /\ returned' = Returned([via |-> "tool",
                             out |-> listTool(args.tool, args.arguments, args.items)])
    /\ UNCHANGED <<args, restVars>>

ShapeNext == Project \/ CallListTool

SpecShape == PureInit(ListCalls) /\ [][ShapeNext]_vars


(***************************************************************************)
(* Properties of the request governor                                      *)
(***************************************************************************)
\* the calls whose task body executes: an attempt in flight or a retry delay
Executing == {r \in Reqs : st[r] \in {"running", "backoff"}}

\* C1: under any burst of submissions the number of calls whose task body
\* executes at the same moment never exceeds MaxConcurrent
C1_ConcurrencyCeiling == Cardinality(Executing) <= MaxConcurrent

\* C1 witness: every slot is taken while another call waits in the queue
C1_Saturated == Cardinality(Executing) = MaxConcurrent /\ Len(queue) > 0

\* C2: a call makes at most retries + 1 = 4 transport attempts; once the
\* fourth has been made the call is in that attempt or has settled, it never
\* waits for a fifth
C2_AtMostFourAttempts ==
    \A r \in Reqs :
        /\ transportCalls[r] <= retries + 1
        /\ transportCalls[r] = retries + 1 => st[r] \in {"running", "done"}

\* C2 witness: four attempts failed with a retryable failure, the call failed
C2_FourAttemptsFailed ==
    \E r \in Reqs :
        /\ st[r] = "done" /\ abortPhase[r] = "none"
        /\ transportCalls[r] = retries + 1
        /\ lastError[r].status = 503
        /\ result[r].cls = "KaitenError"

\* C3: after a 429 with Retry-After: n the next attempt starts no earlier than
\* n seconds after the failure, whatever the exponential formula gives
C3_RetryAfterHonoured ==
    \A r \in Reqs :
        (/\ st[r] = "running" /\ retryCount[r] > 0
         /\ lastError[r].status = 429
         /\ parseInt(lastError[r].retryAfter)[1])
        => waited[r] >= parseInt(lastError[r].retryAfter)[2] * 1000

\* C3 witness: the third retry after a 429 with Retry-After: 3 started after
\* 3 s, less than the 4 s of the exponential formula
C3_ThirdRetryAfterHeader ==
    \E r \in Reqs :
        /\ st[r] = "running" /\ retryCount[r] = 3
        /\ lastError[r].status = 429 /\ lastError[r].retryAfter = <<"3">>
        /\ waited[r] = 3000

\* C4: a call whose signal fired at submission or while it waited in the queue
\* never invokes fn, makes no transport call, and ends in the ABORTED failure
C4_CancelledBeforeAdmission ==
    \A r \in Reqs :
        abortPhase[r] \in {"submit", "queued"}
        => /\ ~fnInvoked[r]
           /\ transportCalls[r] = 0
           /\ st[r] \in {"queued", "done"}
           /\ st[r] = "done" => /\ result[r].type = "UNKNOWN_ERROR"
                                /\ result[r].details.code = "ABORTED"

\* C4 witness: a call cancelled while queued was taken from the queue and failed
C4_CancelledWhileQueuedSettled ==
    \E r \in Reqs : abortPhase[r] = "queued" /\ st[r] = "done"

\* C5: the error the caller gets has the kind the classifier gave the last
\* failed attempt
C5_KindUnchanged ==
    \A r \in Reqs :
        (st[r] = "done" /\ lastError[r] # NoError /\ result[r] # NoError)
        => result[r].type = handleAxiosError(lastError[r]).type

\* C6: the error result of a tool call that ended in an upstream failure has
\* the failure's kind, its message and its hint
C6_ToolErrorHasKindMessageHint ==
    \A r \in Reqs :
        (st[r] = "done" /\ lastError[r] # NoError /\ result[r] # NoError)
        => /\ toolResult[r].isError
           /\ toolResult[r].type = result[r].type
           /\ toolResult[r].message = result[r].message
           /\ toolResult[r].hint = result[r].hint

\* the kind of the specification's taxonomy for a transport error: the
\* classifier's type, API_ERROR being SERVER_ERROR for 5xx and UNKNOWN otherwise
SpecKind(e) ==
    LET k == handleAxiosError(e)
    IN  IF k.type = "API_ERROR"
        THEN IF k.status >= 500 /\ k.status < 600 THEN "SERVER_ERROR" ELSE "UNKNOWN"
        ELSE k.type

RetryableKinds == {"NETWORK_ERROR", "TIMEOUT", "RATE_LIMITED", "SERVER_ERROR"}

\* whether retries follow the predicate P on the last transport error: a call
\* waits for a retry only after P, fails with budget left only after ~P, and
\* makes one attempt when its first failure is not P
RetriesFollow(P(_)) ==
    \A r \in Reqs :
        /\ st[r] = "backoff" => P(lastError[r])
        /\ (st[r] = "done" /\ abortPhase[r] = "none" /\ lastError[r] # NoError
                /\ result[r] # NoError /\ retryCount[r] < retries)
            => ~P(lastError[r])
        /\ (st[r] = "done" /\ abortPhase[r] = "none" /\ lastError[r] # NoError
                /\ result[r] # NoError /\ retryCount[r] = 0)
            => transportCalls[r] = 1

IsRetryableKind(e) == SpecKind(e) \in RetryableKinds

IsRetryableKindOr408(e) == SpecKind(e) \in RetryableKinds \/ e.status = 408

SamePairInWindow(c, d) ==
    /\ c # d
    /\ callPc[c] = "done" /\ callPc[d] = "done"
    /\ callTool[c] = callTool[d]
    /\ CacheOn
    /\ ~disturbed[c] /\ ~disturbed[d]
    /\ lookupAt[d] - lookupAt[c] <= KAITEN_CACHE_TTL_SECONDS * 1000
    /\ lookupAt[c] - lookupAt[d] <= KAITEN_CACHE_TTL_SECONDS * 1000

\* C7: two calls of a cache-backed read for the same kind and key, within the
\* TTL window and with no invalidation between them, never both fetch
\* upstream, however the two calls interleave: one is served from the cache.
C7_OneUpstreamFetch ==
    \A c, d \in Calls : SamePairInWindow(c, d) => ~(wentUpstream[c] /\ wentUpstream[d])

\* the entries a set of the tool's key would remove from its store now
RemovedBySet(tool) ==
    Keys(cache[StoreOf(tool)])
    \ Keys(toolCacheSet(tool, cache, UpstreamData(tool, now), now,
                        KAITEN_CACHE_TTL_SECONDS)[StoreOf(tool)])

\* the entry the contract has a set of the tool's key evict: the least
\* recently used one, when the key is new and the store is full
LeastRecentlyUsed(tool) ==
    LET n == StoreOf(tool)
    IN  IF CacheOn /\ ~InSeq(useOrder[n], KeyOf(tool)) /\ Len(useOrder[n]) = CacheMax
        THEN {useOrder[n][CacheMax]} ELSE {}

\* C9: with the cache enabled, a get of a (kind, key) that was set, whose TTL
\* has not elapsed and which was neither evicted nor invalidated, returns the
\* value last set, for each of the five kinds of read.
C9_SetGetRoundTrip ==
    \A tool \in CachedTools :
        Present(StoreOf(tool), KeyOf(tool))
        => Got(tool).value = Value(lastPut[StoreOf(tool)][KeyOf(tool)].data)

\* C9 witness: a single space was set, then another key of the store, then
\* the space was read back (the read moved it ahead of the newer entry), and
\* a get of it returns what was set
C9_ReadBackSingleSpace ==
    \E id \in Ids :
        /\ Len(cache.spaces) >= 2
        /\ cache.spaces[1].key = KeySpace(id)
        /\ cache.spaces[1].timestamp < cache.spaces[2].timestamp
        /\ lastPut.spaces[KeySpace(id)].isSet
        /\ Got(<<"kaiten_get_space", id>>).value = Value(lastPut.spaces[KeySpace(id)].data)

\* C10: a set of a new key into a store that holds CacheMax entries removes
\* exactly the least recently used entry of that store and leaves CacheMax
\* entries in it; no set removes anything else, no store ever holds more than
\* CacheMax entries, and no set changes another kind's store.
C10_EvictsExactlyLru ==
    /\ \A n \in StoreNames : Len(cache[n]) <= CacheMax
    /\ \A tool \in CachedTools :
          LET after == toolCacheSet(tool, cache, UpstreamData(tool, now), now,
                                    KAITEN_CACHE_TTL_SECONDS)
          IN  /\ RemovedBySet(tool) = LeastRecentlyUsed(tool)
              /\ RemovedBySet(tool) # {} => Len(after[StoreOf(tool)]) = CacheMax
              /\ \A m \in StoreNames \ {StoreOf(tool)} : after[m] = cache[m]
    /\ \A n \in StoreNames :
          /\ evicted[n] \cap Keys(cache[n]) = {}
          /\ (now = 0 /\ evicted[n] # {}) => Len(cache[n]) = CacheMax

\* C10 witness: CacheMax + 1 distinct keys were set in one store before any
\* could expire: one was evicted, CacheMax are held, and another kind's
\* store still holds its entry
C10_EvictedFromFullStore ==
    \E n \in StoreNames :
        /\ now = 0
        /\ Cardinality(evicted[n]) = 1
        /\ Len(cache[n]) = CacheMax
        /\ \E m \in StoreNames \ {n} : Len(cache[m]) > 0

(***************************************************************************)
(* The cache: C11, C12, C13                                                *)
(***************************************************************************)
\* every get of the cache c returns absent for the reads of the stores in names
AllAbsent(c, names) ==
    \A tool \in CachedTools :
        StoreOf(tool) \in names
        => toolCacheGet(tool, c, now, KAITEN_CACHE_TTL_SECONDS).value.isNull

\* the stores outside names are in c what they are in the cache, and every
\* read of them returns from c what it returns from the cache
OthersKept(c, names) ==
    /\ \A m \in StoreNames \ names : c[m] = cache[m]
    /\ \A tool \in CachedTools :
          StoreOf(tool) \notin names
          => toolCacheGet(tool, c, now, KAITEN_CACHE_TTL_SECONDS).value = Got(tool).value

\* C11: invalidating one kind makes every get of that kind return absent and
\* leaves the entries of the other kinds as they were, still returned by
\* their gets; invalidateAll makes every get of every kind return absent.
\* A store that was invalidated stays empty until the next set into it.
C11_InvalidateFrame ==
    /\ AllAbsent(invalidateSpaces(cache), {"spaces"})
    /\ OthersKept(invalidateSpaces(cache), {"spaces"})
    /\ AllAbsent(invalidateBoards(cache), {"boards"})
    /\ OthersKept(invalidateBoards(cache), {"boards"})
    /\ AllAbsent(invalidateUsers(cache), {"users"})
    /\ OthersKept(invalidateUsers(cache), {"users"})
    /\ AllAbsent(invalidateAll(cache), StoreNames)
    /\ \A n \in StoreNames : cleared[n] => cache[n] = <<>> /\ AllAbsent(cache, {n})

\* C11 witness: the spaces store was invalidated while it held entries; the
\* boards of a space and the users list, set before, are still returned
C11_SpacesClearedOthersReturned ==
    /\ cleared.spaces /\ ~cleared.boards /\ ~cleared.users
    /\ AllAbsent(cache, {"spaces"})
    /\ ~Got(<<"kaiten_list_boards", 1>>).value.isNull
    /\ ~Got(<<"kaiten_list_users", 0>>).value.isNull

\* C12: an entry inserted at time t is returned as absent by every get at a
\* time later than t + TTL, however many gets of its key happened in between
\* (the store's entry still carries the time of its set), and that get
\* removes it from its store.
C12_ExpiredAbsentAndRemoved ==
    \A tool \in CachedTools :
        LET n == StoreOf(tool)
            k == KeyOf(tool)
        IN  CacheOn /\ InSeq(useOrder[n], k)
            => /\ cache[n][IndexOf(cache[n], k)].timestamp = lastPut[n][k].t
               /\ now > lastPut[n][k].t + ttlMs(KAITEN_CACHE_TTL_SECONDS)
                  => /\ Got(tool).value.isNull
                     /\ k \notin Keys(Got(tool).cache[n])

\* C12 witness: the spaces list, set at time 0, was read after a later set of
\* a single space (it is the more recently used of the two); past its TTL
\* its get returns absent and leaves only the single space in the store
C12_ExpiredSpacesListRemoved ==
    /\ now > ttlMs(KAITEN_CACHE_TTL_SECONDS)
    /\ Len(cache.spaces) = 2
    /\ cache.spaces[1].key = KeyAll
    /\ cache.spaces[1].timestamp = 0
    /\ lastPut.spaces[KeyAll].t = 0
    /\ cache.spaces[2].timestamp > 0
    /\ Got(<<"kaiten_list_spaces", 0>>).value.isNull
    /\ Got(<<"kaiten_list_spaces", 0>>).cache.spaces = <<cache.spaces[2]>>

\* C13: with the TTL configured to zero every get returns absent, no set
\* stores anything (every store's size stays 0), and every cache-backed tool
\* call that has looked its resource up goes upstream.
C13_DisabledCacheStoresNothing ==
    KAITEN_CACHE_TTL_SECONDS = 0
    => /\ \A tool \in CachedTools :
             /\ Got(tool).value.isNull
             /\ Got(tool).cache = cache
             /\ toolCacheSet(tool, cache, UpstreamData(tool, now), now,
                             KAITEN_CACHE_TTL_SECONDS) = cache
       /\ getStats(cache) = [spaces |-> 0, boards |-> 0, users |-> 0]
       /\ \A c \in Calls : callPc[c] # "idle" => wentUpstream[c]

\* C13 witness: with the TTL at zero two calls of the same tool have both
\* fetched upstream, the second after the first one's set, and the stores
\* are empty
C13_BothCallsWentUpstream ==
    /\ KAITEN_CACHE_TTL_SECONDS = 0
    /\ \A c \in Calls : callPc[c] = "done" /\ wentUpstream[c]
    /\ \A c \in Calls : callTool[c] = <<"kaiten_list_spaces", 0>>
    /\ getStats(cache) = [spaces |-> 0, boards |-> 0, users |-> 0]

(***************************************************************************)
(* The queue's interval cap: C14                                           *)
(***************************************************************************)
\* the calls whose job started less than one interval ago
StartedWithinLastSecond == {r \in Reqs : startedAgo[r] # NotStarted /\ startedAgo[r] < interval}

\* the calls whose job started in the queue's current interval
StartedInInterval ==
    IF intervalLeft = 0 THEN {}
    ELSE {r \in Reqs : startedAgo[r] # NotStarted /\ startedAgo[r] <= interval - intervalLeft}

C15_OneKeyPerCall ==
    \A r \in Reqs :
        /\ fnInvoked[r]
           => /\ headers[r] # Undefined
              /\ idempotency_key[r] \notin {Undefined, EmptyString}
                 => headers[r] = idempotency_key[r]
              /\ idempotency_key[r] \in {Undefined, EmptyString}
                 => /\ headers[r][1] = "mcp"
                    /\ \A q \in Reqs \ {r} : headers[q] # headers[r]
        /\ transportCalls[r] > 0 => sentKeys[r] = {headers[r]}
        /\ transportCalls[r] = 0 => sentKeys[r] = {}

\* C15 witness: a call without a caller's key and a call with one have both
\* made their four attempts, each under its single key
C15_AllAttemptsSameKey ==
    /\ idempotency_key[1] = Undefined /\ transportCalls[1] = retries + 1
    /\ sentKeys[1] = {generateIdempotencyKey(1)}
    /\ idempotency_key[2] = <<"caller", 1>> /\ transportCalls[2] = retries + 1
    /\ sentKeys[2] = {<<"caller", 1>>}

(***************************************************************************)
(* Backoff: C16                                                            *)
(***************************************************************************)
\* a 503 without a Retry-After header
Plain503(e) == e.status = 503 /\ e.retryAfter = <<>>

KindOf(k) ==
    IF k.type = "API_ERROR"
    THEN IF k.status >= 500 /\ k.status < 600 THEN "SERVER_ERROR" ELSE "UNKNOWN"
    ELSE k.type

\* what fixes the kind: no response and the timeout code or not, or the status
OutcomeOf(e) ==
    IF e.hasResponse THEN <<"status", e.status>>
    ELSE IF e.code \in {"ECONNABORTED", "ETIMEDOUT"} THEN <<"timeout", 0>>
    ELSE <<"no response", 0>>

\* the kind the contract gives an outcome
KindTable(e) ==
    CASE ~e.hasResponse /\ e.code \in {"ECONNABORTED", "ETIMEDOUT"} -> "TIMEOUT"
      [] ~e.hasResponse /\ e.code \notin {"ECONNABORTED", "ETIMEDOUT"} -> "NETWORK_ERROR"
      [] e.hasResponse /\ e.status \in {401, 403} -> "AUTH_ERROR"
      [] e.hasResponse /\ e.status = 404 -> "NOT_FOUND"
      [] e.hasResponse /\ e.status = 422 -> "VALIDATION_ERROR"
      [] e.hasResponse /\ e.status = 429 -> "RATE_LIMITED"
      [] e.hasResponse /\ e.status >= 500 /\ e.status < 600 -> "SERVER_ERROR"
      [] OTHER -> "UNKNOWN"

\* C17: the classifier gives every transport outcome one kind, the kind of
\* the table, the same for every error of the same outcome whatever its
\* message and headers; a 429 carries its Retry-After value in the details.
C17_ClassifierTotalDeterministic ==
    returned.done
    => /\ returned.value.cls = "KaitenError"
       /\ KindOf(returned.value) = KindTable(args)
       /\ \A e \in AxiosErrors :
             OutcomeOf(e) = OutcomeOf(args)
             => KindOf(handleAxiosError(e)) = KindOf(returned.value)
       /\ args.hasResponse /\ args.status = 429 /\ args.retryAfter # <<>>
          => returned.value.details.retry_after = args.retryAfter

\* C17 witness: a 429 with Retry-After: 3 was classified RATE_LIMITED with
\* the value in its details
C17_RateLimitedWithRetryAfter ==
    /\ returned.done
    /\ args.status = 429 /\ args.retryAfter = <<"3">>
    /\ returned.value.type = "RATE_LIMITED"
    /\ returned.value.details.retry_after = <<"3">>

(***************************************************************************)
(* Truncation: C20                                                         *)
(***************************************************************************)
\* C20: a text no longer than the ceiling is returned unchanged; of a longer
\* one the first ceiling characters are returned followed by the notice, so
\* that the result is no longer than the ceiling plus the notice.
C20_TruncateToCeiling ==
    returned.done
    => LET text == args.text
           n    == notice(Len(text), Len(text) - args.maxLength, args.maxLength)
       IN  IF Len(text) <= args.maxLength
           THEN returned.value = text
           ELSE /\ SubSeq(returned.value, 1, args.maxLength) = SubSeq(text, 1, args.maxLength)
                /\ SubSeq(returned.value, args.maxLength + 1, Len(returned.value)) = n
                /\ Len(returned.value) <= args.maxLength + Len(n)

\* C20 witness: a text of four characters cut to its first two, with the
\* notice of two characters dropped
C20_CutToTwo ==
    /\ returned.done
    /\ args.text = <<"a", "b", "b", "a">> /\ args.maxLength = 2
    /\ returned.value = <<"a", "b">> \o notice(4, 2, 2)

(***************************************************************************)
(* The verbosity of the list tools: C18, C19                               *)
(***************************************************************************)
IsEntry(part) == part.kind = "entry"

\* the field that names an item of the resource
LabelOf(resource) == IF resource = "users" THEN "full_name" ELSE "title"

\* the call asked for the tier
AskedFor(tier) ==
    /\ "verbosity" \in DOMAIN args.arguments
    /\ args.arguments.verbosity = tier

\* C18: a list tool called with verbosity=minimal over a list of k items
\* answers with exactly k entries, each showing only the identifying key and
\* the label of its item.
C18_MinimalListOutput ==
    (returned.done /\ returned.value.via = "tool" /\ AskedFor("minimal"))
    => LET entries == SelectSeq(returned.value.out, IsEntry)
       IN  /\ Len(entries) = Len(args.items)
           /\ \A i \in DOMAIN entries :
                 DOMAIN entries[i].fields = {"id", LabelOf(ResourceOf(args.tool))}

\* C19: for every list of every resource, the fields of the minimal
\* projection of an item are a strict subset of the fields of the normal
\* projection of the same item.
C19_MinimalStrictSubsetOfNormal ==
    (returned.done /\ returned.value.via = "project" /\ AskedFor("minimal"))
    => LET normal == project(ResourceOf(args.tool), args.items, "normal")
       IN  \A i \in DOMAIN args.items :
              /\ DOMAIN returned.value.out[i] \subseteq DOMAIN normal[i]
              /\ DOMAIN returned.value.out[i] # DOMAIN normal[i]

(***************************************************************************)
(* The classifier, statuses without a branch of their own: C21             *)
(***************************************************************************)
\* a response whose status is none of 401, 403, 404, 422, 429, 5xx
IsOtherStatus(e) ==
    /\ e.hasResponse
    /\ e.status \notin {401, 403, 404, 422, 429}
    /\ ~(e.status >= 500 /\ e.status < 600)

ServerFailures == {e \in AxiosErrors : e.hasResponse /\ e.status >= 500 /\ e.status < 600}

\* C21 as stated: a failure with a status that is none of 401, 403, 404,
\* 422, 429, 5xx is given the unknown kind, a kind no server error is given,
\* with the status and the body of the response kept.
C21_OtherStatusIsUnknown ==
    (returned.done /\ IsOtherStatus(args))
    => /\ returned.value.type = "UNKNOWN_ERROR"
       /\ \A e \in ServerFailures : handleAxiosError(e).type # returned.value.type
       /\ returned.value.status = args.status
       /\ returned.value.details.data = args.data

\* C21 amended: such a failure is given the type API_ERROR, the type of the
\* server errors, with the status and the body of the response kept; it
\* differs from a server error by its message (the transport's, or 'API
\* request failed') and by having no hint.
C21_OtherStatusIsApiError ==
    (returned.done /\ IsOtherStatus(args))
    => /\ returned.value.type = "API_ERROR"
       /\ \A e \in ServerFailures : handleAxiosError(e).type = returned.value.type
       /\ returned.value.status = args.status
       /\ returned.value.details.data = args.data
       /\ returned.value.message = OrElse(args.message, "API request failed")
       /\ returned.value.hint = ""

\* C21 witness: a 409 was classified API_ERROR with its status and body
C21_ConflictClassified ==
    /\ returned.done
    /\ args.hasResponse /\ args.status = 409
    /\ returned.value.type = "API_ERROR"
    /\ returned.value.status = 409
    /\ returned.value.details.data = "body"

(***************************************************************************)
(* Cancellation of a running request: C22                                  *)
(***************************************************************************)
\* the failure is a cancellation: the ABORTED error of queuedRequest or the
\* transport's ERR_CANCELED
IsCancellation(e) == e.details.code \in {"ABORTED", "ERR_CANCELED"}

\* C22: a request whose signal fires while an attempt of it is in flight ends
\* cancelled and is not retried: it has settled with a cancellation, every
\* retry counted for it was followed by a transport attempt made before the
\* signal fired, and no retry delay is left to wait.
C22_CancelledWhileRunningNotRetried ==
    \A r \in Reqs :
        abortPhase[r] = "running"
        => /\ st[r] = "done"
           /\ IsCancellation(result[r])
           /\ retryCount[r] = transportCalls[r] - 1
           /\ delayLeft[r] = 0

(***************************************************************************)
(* The attempts of one request: C23                                        *)
(***************************************************************************)
\* attempts of the call r that were started and have not ended: every
\* failed attempt of a call that is not cancelled counted one retry
InFlight(r) == transportCalls[r] - retryCount[r]

\* C23: the attempts of one request follow one another: while an attempt is
\* in flight it is the only one, all the earlier ones have failed, and each
\* of them but the first was started when the retry delay that followed the
\* failure before it had run out; between attempts none is in flight.
C23_AttemptsSequential ==
    \A r \in Reqs :
        ~aborted(r)
        => /\ st[r] = "running" => InFlight(r) = 1 /\ Len(pauses[r]) = retryCount[r]
           /\ st[r] = "backoff" => InFlight(r) = 0 /\ Len(pauses[r]) = retryCount[r] - 1
           /\ st[r] \in {"new", "queued"} => transportCalls[r] = 0
           /\ \A k \in 1..Len(pauses[r]) :
                 \E jitter \in JitterValues :
                    pauses[r][k].ms = retryDelay(k, pauses[r][k].after, jitter)

\* C23 witness: the third attempt of a request is in flight after two
\* failures and two delays
C23_ThirdAttemptInFlight ==
    \E r \in Reqs :
        /\ st[r] = "running" /\ ~aborted(r)
        /\ transportCalls[r] = 3 /\ retryCount[r] = 2
        /\ Len(pauses[r]) = 2

(***************************************************************************)
(* Waiting in the queue: C24                                               *)
(***************************************************************************)
Waiting == {r \in Reqs : st[r] = "queued"}

\* C24 as stated: a request waits in the queue only while N requests are
\* running; with fewer than N running it was started when it was submitted.
C24_WaitsOnlyWhenAllRunning ==
    Waiting # {} => pendingCount >= KAITEN_MAX_CONCURRENT_REQUESTS

\* C24 amended: a request waits in the queue only while N requests are
\* running or N requests have been started in the queue's current interval;
\* with fewer than N running and fewer than N started in the interval it was
\* started when it was submitted, so the waiting calls are the queue's.
C24_WaitsOnlyWhenCapped ==
    /\ Waiting # {}
       => \/ pendingCount >= KAITEN_MAX_CONCURRENT_REQUESTS
          \/ intervalCount >= KAITEN_MAX_CONCURRENT_REQUESTS
    /\ Waiting = {queue[i] : i \in 1..Len(queue)}

\* C24 witness: a request waits while nothing runs, the interval having had
\* its N starts
C24_WaitsWithNothingRunning ==
    /\ Waiting # {}
    /\ pendingCount = 0
    /\ intervalCount = KAITEN_MAX_CONCURRENT_REQUESTS

(***************************************************************************)
(* Idempotency keys of the tools: C25                                      *)
(***************************************************************************)
\* the call r of a mutating tool was made with the key k
CalledWithKey(r, k) ==
    /\ "idempotency_key" \in DOMAIN args[r].arguments
    /\ args[r].arguments.idempotency_key = k

\* C25: the idempotency_key a caller passes to a mutating tool is the
\* Idempotency-Key every attempt of the call sends, so two calls made with
\* the same key send the same value.
C25_CallerKeySentUpstream ==
    \A r \in MutateReqs :
        CalledWithKey(r, <<"caller", 1>>)
        => /\ sentKeys[r] \subseteq {<<"caller", 1>>}
           /\ \A q \in MutateReqs :
                 CalledWithKey(q, <<"caller", 1>>)
                 => Cardinality(sentKeys[r] \cup sentKeys[q]) <= 1

(***************************************************************************)
(* The metrics of the transport attempts: C26                              *)
(***************************************************************************)
\* the records of the call r with the outcome
Records(r, success) == Len(SelectSeq(metrics[r], LAMBDA m : m.success = success))

\* the attempts of the call r that have ended
EndedAttempts(r) == transportCalls[r] - (IF st[r] = "running" THEN 1 ELSE 0)

\* the attempts of the call r that got a response of success
SucceededAttempts(r) == IF st[r] = "done" /\ result[r] = NoError THEN 1 ELSE 0

\* C26: every transport attempt that has ended is recorded once, with its
\* own outcome: a failure for each attempt that failed, retried or not, and
\* a success for the attempt that succeeded.
C26_EveryAttemptRecordedOnce ==
    \A r \in Reqs :
        ~aborted(r)
        => /\ Records(r, TRUE) = SucceededAttempts(r)
           /\ Records(r, FALSE) = EndedAttempts(r) - SucceededAttempts(r)

(***************************************************************************)
(* The projections applied twice: C27                                      *)
(***************************************************************************)
\* the tier the projection was applied with
TierOf(arguments) == orElse(get(arguments, "verbosity"), "normal")

\* C27: a projection applied to its own result with the same tier gives that
\* result again, and it gives a result for every list and tier, the normal
\* one when no tier is named.
C27_ProjectionIdempotent ==
    (returned.done /\ returned.value.via = "project")
    => /\ project(ResourceOf(args.tool), returned.value.out, TierOf(args.arguments))
          = returned.value.out
       /\ "verbosity" \notin DOMAIN args.arguments
          => returned.value.out = project(ResourceOf(args.tool), args.items, "normal")

(***************************************************************************)
(* Every call settles: C28                                                 *)
(***************************************************************************)
\* what a step of the client leaves alone in the burst specification
BurstFrame ==
    UNCHANGED <<cacheVars, args, returned, KAITEN_MAX_CONCURRENT_REQUESTS, startedAgo,
                idempotency_key, headers, sentKeys, pauses, metrics>>

\* the attempt of r in flight ends: a response, an error, or the axios
\* timeout (kaiten-client.ts 197-206)
AttemptEnds(r) ==
    /\ Succeed(r) \/ \E e \in BurstErrors : Fail(r, e, 0)
    /\ BurstFrame

\* the timer axios-retry set for r fires
RetryFires(r) == Retry(r) /\ BurstFrame

\* the timers of the event loop fire
TimePasses == Tick /\ BurstFrame

\* every attempt ends, and timers that are due fire
Fairness ==
    /\ \A r \in Reqs : WF_vars(AttemptEnds(r))
    /\ \A r \in Reqs : WF_vars(RetryFires(r))
    /\ WF_vars(TimePasses)

SpecLive == ClientInit /\ [][Next]_vars /\ Fairness

Submitted(r) == st[r] \in {"queued", "running", "backoff"}
AllSettled == \A r \in Reqs : ~Submitted(r)

\* C28: every call submitted to the client settles, with a success, a typed
\* failure or a cancellation, when every attempt ends and due timers fire;
\* and when no submitted call is unsettled the queue runs nothing and holds
\* nothing.
C28_EveryCallSettles ==
    /\ \A r \in Reqs : Submitted(r) ~> (st[r] = "done")
    /\ [](AllSettled => pendingCount = 0 /\ Len(queue) = 0)

\* all calls of the burst have settled: one after its retries, one cancelled
C28_BurstSettled ==
    /\ \A r \in Reqs : st[r] = "done"
    /\ \E r \in Reqs : retryCount[r] > 0
    /\ \E r \in Reqs : aborted(r) /\ result[r] # NoError
    /\ pendingCount = 0
    /\ Len(queue) = 0

(***************************************************************************)
(* A fetch that an invalidation overtakes: C29                             *)
(***************************************************************************)
\* the call c stores what it fetched
StoresFetched(c) == callPc[c] = "fetching" /\ callPc'[c] = "done"

\* a get of the tool's entry after the step finds it
VisibleAfter(tool) ==
    ~toolCacheGet(tool, cache', now', KAITEN_CACHE_TTL_SECONDS').value.isNull

\* C29: a call that missed the cache and whose store was invalidated while
\* it fetched does not put the value it fetched where a later get finds it.
C29_NoInsertAfterInvalidation ==
    [][\A c \in Calls :
          StoresFetched(c) /\ invalidatedSince[c] => ~VisibleAfter(callTool[c])]_vars

(***************************************************************************)
(* The slot of a call that waits for its retry: C30                        *)
(***************************************************************************)
InAttempt == {r \in Reqs : st[r] = "running"}
BetweenAttempts == {r \in Reqs : st[r] = "backoff"}

\* C30: a call keeps its slot while it waits out a retry delay: the slots
\* taken are those of the calls in an attempt or between attempts, they are
\* never more than the queue has, and so the attempts in flight, first ones
\* and retries together, are never more either.
C30_SlotKeptInBackoff ==
    /\ pendingCount = Cardinality(InAttempt) + Cardinality(BetweenAttempts)
    /\ pendingCount <= KAITEN_MAX_CONCURRENT_REQUESTS
    /\ Cardinality(InAttempt) <= KAITEN_MAX_CONCURRENT_REQUESTS

\* every slot is taken, one of them by a call between attempts, and a call
\* waits in the queue
C30_BackoffHoldsSlot ==
    /\ BetweenAttempts # {}
    /\ pendingCount = KAITEN_MAX_CONCURRENT_REQUESTS
    /\ Len(queue) > 0

====
